---- MODULE Spec2Model ----
(***************************************************************************)
(* A model of the EML parser and HTML-to-Markdown converter of the         *)
(* obsidian-eml-to-markdown plugin (src/unnamed/part_000).                 *)
(*                                                                         *)
(* Text is modelled character by character: a JavaScript string is a TLA+  *)
(* string, a Buffer is a sequence of bytes (0..255).  Every function of    *)
(* the source is an operator that computes what the code computes; every   *)
(* call is a frame variable holding the call's arguments, its locals and   *)
(* its position.                                                           *)
(***************************************************************************)
EXTENDS Integers, Sequences, FiniteSets, TLC

VARIABLES
    addrCall,   \* frame of parseEmailAddresses: str, i, current, flags, addresses
    urlCall,    \* frame of sanitizeUrl: url, ret
    qpCall,     \* frames of decodeQuotedPrintableToBuffer and decodeQuotedPrintable
    emlCall,    \* frame of parseEml: content, result, the parts still to walk
    htmlCall,   \* frame of htmlToMarkdown: html, ret
    hdrCall,    \* frame of parseHeaders: headerText, lines, n, headers
    settings,             \* this.settings: autoConvert, emlHandling
    attachmentFolderPath, \* the vault's setting of the attachment folder
    files,                \* the TFile objects of the vault, by identity
    folders,              \* the paths of the folders of the vault
    processingFiles,      \* this.processingFiles
    timers,               \* the callbacks setTimeout holds, oldest first
    calls,                \* the frames of the calls of convertEmlFile that wait
    returned,             \* the frame of the call that returned last
    started,              \* the calls of convertEmlFile so far
    allCall,              \* the frame of the convert-all command
    failures              \* the vault operations that failed so far

\* the state of the plugin and of the vault
pluginVars ==
    <<settings, attachmentFolderPath, files, folders, processingFiles, timers,
      calls, returned, started, allCall, failures>>

vars == <<addrCall, urlCall, qpCall, emlCall, htmlCall, hdrCall, pluginVars>>

-----------------------------------------------------------------------------
(* JavaScript string primitives                                            *)

\* str[i] with a 1-based index; "" outside the string (JS: undefined)
At(s, i) == IF i >= 1 /\ i <= Len(s) THEN SubSeq(s, i, i) ELSE ""

\* s.substring(i) for a 1-based i
From(s, i) == IF i > Len(s) THEN "" ELSE SubSeq(s, i, Len(s))

\* s.startsWith(lit, i - 1) for a 1-based i
StartsWithAt(s, lit, i) ==
    /\ i >= 1
    /\ i + Len(lit) - 1 <= Len(s)
    /\ SubSeq(s, i, i + Len(lit) - 1) = lit

\* the white space String.prototype.trim and the regex class \s remove
IsSpace(c) == c \in {" ", "\t", "\n", "\r", "\f"}

\* the least element of a set of positions, 0 when it is empty: where a
\* left-to-right scan of the code stops
FirstOf(S) == IF S = {} THEN 0 ELSE CHOOSE k \in S : \A j \in S : k <= j

\* the greatest element of a set of positions, 0 when it is empty
LastOf(S) == IF S = {} THEN 0 ELSE CHOOSE k \in S : \A j \in S : k >= j

RECURSIVE JoinRange(_, _, _)
\* pieces[lo] \o ... \o pieces[hi], halving the range
JoinRange(pieces, lo, hi) ==
    IF lo = hi THEN pieces[lo]
    ELSE LET mid == (lo + hi) \div 2
         IN  JoinRange(pieces, lo, mid) \o JoinRange(pieces, mid + 1, hi)

\* the concatenation of a sequence of strings
Join(pieces) == IF Len(pieces) = 0 THEN "" ELSE JoinRange(pieces, 1, Len(pieces))

\* the concatenation of a sequence of sequences
Flatten(pieces) ==
    IF Len(pieces) = 0 THEN <<>> ELSE JoinRange(pieces, 1, Len(pieces))

\* the first index >= i of s that holds no white space (Len(s) + 1 if none)
SkipSpace(s, i) ==
    IF \E k \in i..Len(s) : ~IsSpace(At(s, k))
    THEN CHOOSE k \in i..Len(s) :
             ~IsSpace(At(s, k)) /\ \A j \in i..(k - 1) : IsSpace(At(s, j))
    ELSE Len(s) + 1

\* the last index <= i of s that holds no white space (0 if none)
SkipSpaceBack(s, i) ==
    IF i >= 1 /\ IsSpace(At(s, i))
    THEN LastOf({j \in 1..i : ~IsSpace(At(s, j))})
    ELSE i

\* String.prototype.trim
Trim(s) ==
    LET a == SkipSpace(s, 1)
        b == SkipSpaceBack(s, Len(s))
    IN  IF a > b THEN "" ELSE SubSeq(s, a, b)


\* the lower-case form of one character
LowerChar(c) ==
    CASE c = "A" -> "a" [] c = "B" -> "b" [] c = "C" -> "c" [] c = "D" -> "d"
      [] c = "E" -> "e" [] c = "F" -> "f" [] c = "G" -> "g" [] c = "H" -> "h"
      [] c = "I" -> "i" [] c = "J" -> "j" [] c = "K" -> "k" [] c = "L" -> "l"
      [] c = "M" -> "m" [] c = "N" -> "n" [] c = "O" -> "o" [] c = "P" -> "p"
      [] c = "Q" -> "q" [] c = "R" -> "r" [] c = "S" -> "s" [] c = "T" -> "t"
      [] c = "U" -> "u" [] c = "V" -> "v" [] c = "W" -> "w" [] c = "X" -> "x"
      [] c = "Y" -> "y" [] c = "Z" -> "z" [] OTHER -> c

\* String.prototype.toLowerCase
ToLowerCase(s) == Join([k \in 1..Len(s) |-> LowerChar(At(s, k))])

\* s.indexOf(lit, i - 1) + 1 for a 1-based i: 0 when lit does not occur
IndexOfFrom(s, lit, i) ==
    LET last == Len(s) - Len(lit) + 1
    IN  IF \E k \in i..last : StartsWithAt(s, lit, k)
        THEN CHOOSE k \in i..last :
                 /\ StartsWithAt(s, lit, k)
                 /\ \A j \in i..(k - 1) : ~StartsWithAt(s, lit, j)
        ELSE 0

\* the printable ASCII characters of codes 32 (space) to 95 (_)
AsciiLow ==
    " !\"#$%&'()*+,-./0123456789:;<=>?@ABCDEFGHIJKLMNOPQRSTUVWXYZ[\\]^_"

\* the printable ASCII characters of codes 97 (a) to 126 (~)
AsciiHigh == "abcdefghijklmnopqrstuvwxyz{|}~"

\* String.prototype.charCodeAt for one character of the model's alphabet
CharCode(c) ==
    CASE c = "\t" -> 9
      [] c = "\n" -> 10
      [] c = "\f" -> 12
      [] c = "\r" -> 13
      [] IndexOfFrom(AsciiLow, c, 1) > 0 -> 31 + IndexOfFrom(AsciiLow, c, 1)
      [] OTHER -> 96 + IndexOfFrom(AsciiHigh, c, 1)

HexDigits == "0123456789ABCDEF"

\* c matches [0-9A-Fa-f]
IsHexDigit(c) == c # "" /\ IndexOfFrom("0123456789ABCDEFabcdef", c, 1) > 0

\* parseInt(c, 16) for one hexadecimal digit, upper or lower case
HexValue(c) ==
    LET k == IndexOfFrom("0123456789ABCDEFabcdef", c, 1)
    IN  IF k > 16 THEN k - 7 ELSE k - 1

\* the strings made of at most n fragments of the set frags
RECURSIVE Concats(_, _)
Concats(frags, n) ==
    IF n = 0 THEN {""}
    ELSE LET shorter == Concats(frags, n - 1)
         IN  shorter \cup {s \o f : s \in shorter, f \in frags}

-----------------------------------------------------------------------------
(* parseEmailAddress, parseEmailAddresses                                   *)

\* the first index >= i of s holding a character of stop (Len(s) + 1 if none):
\* the end of a greedy negated character class
SpanNot(s, stop, i) ==
    IF \E k \in i..Len(s) : At(s, k) \in stop
    THEN CHOOSE k \in i..Len(s) :
             At(s, k) \in stop /\ \A j \in i..(k - 1) : At(s, j) \notin stop
    ELSE Len(s) + 1

\* the first index >= i of s holding no character of class (Len(s) + 1 if
\* none): the end of a greedy character class
SpanIn(s, class, i) ==
    IF \E k \in i..Len(s) : At(s, k) \notin class
    THEN CHOOSE k \in i..Len(s) :
             At(s, k) \notin class /\ \A j \in i..(k - 1) : At(s, j) \in class
    ELSE Len(s) + 1

\* str.match(/^"?([^"<]*)"?\s*<([^>]+)>$/) on the trimmed string: the groups
\* when it matches.  The name group is the longest run without '"' and '<';
\* no shorter run can match, for what follows it must reach '<'.
parseEmailAddress(str0) ==
    LET str == Trim(str0)
        n0 == IF At(str, 1) = "\"" THEN 2 ELSE 1
        n1 == SpanNot(str, {"\"", "<"}, n0)
        q  == IF At(str, n1) = "\"" THEN n1 + 1 ELSE n1
        lt == SkipSpace(str, q)
        gt == SpanNot(str, {">"}, lt + 1)
        matched == /\ At(str, lt) = "<"
                   /\ gt > lt + 1
                   /\ gt = Len(str)
    IN  IF matched
        THEN [name    |-> Trim(SubSeq(str, n0, n1 - 1)),
              address |-> Trim(SubSeq(str, lt + 1, gt - 1))]
        ELSE [name |-> "", address |-> str]

\* a separator test that forgets the angle brackets
IsSeparatorIgnoringBrackets(char, inQuotes, inAngleBrackets) ==
    char = "," /\ ~inQuotes

\* line 621: a comma separates only outside quotes and outside angle brackets
IsSeparator(char, inQuotes, inAngleBrackets) ==
    char = "," /\ ~inQuotes /\ ~inAngleBrackets

\* the frame of a call that has not been made
Idle == [pc |-> "idle"]

\* the plugin before it is loaded, in an empty vault
PluginOff ==
    /\ settings = [autoConvert |-> FALSE, emlHandling |-> "keep"]
    /\ attachmentFolderPath = "/"
    /\ files = <<>>
    /\ folders = {}
    /\ processingFiles = {}
    /\ timers = <<>>
    /\ calls = <<>>
    /\ returned = Idle
    /\ started = 0
    /\ allCall = Idle
    /\ failures = 0

\* the frames of the parser the plugin's handlers leave alone
PluginFrame ==
    UNCHANGED <<addrCall, urlCall, qpCall, emlCall, htmlCall, hdrCall>>

\* the frames a call of parseEmailAddresses leaves alone
AddrFrame == UNCHANGED <<urlCall, qpCall, emlCall, htmlCall, hdrCall, pluginVars>>

\* the frames a call of sanitizeUrl leaves alone
UrlFrame == UNCHANGED <<addrCall, qpCall, emlCall, htmlCall, hdrCall, pluginVars>>

\* the frames the quoted-printable decoders leave alone
QpFrame == UNCHANGED <<addrCall, urlCall, emlCall, htmlCall, hdrCall, pluginVars>>

\* the frames a call of parseEml leaves alone
EmlFrame == UNCHANGED <<addrCall, urlCall, qpCall, htmlCall, hdrCall, pluginVars>>

\* the frames a call of parseHeaders leaves alone
HdrFrame == UNCHANGED <<addrCall, urlCall, qpCall, emlCall, htmlCall, pluginVars>>

\* the frames a call of htmlToMarkdown leaves alone
HtmlFrame == UNCHANGED <<addrCall, urlCall, qpCall, emlCall, hdrCall, pluginVars>>

\* the fragments the address lists are made of
AddrFrags == {"a", "b@c", ",", "\"", "<", ">", " ", "\\"}

\* the longest address list, in fragments
MaxAddrFrags == 4

\* the example of the specification
AddrExample == "\"Doe, John\" <john@x.com>, jane@y.com"

AddrInputs == Concats(AddrFrags, MaxAddrFrags) \cup {AddrExample}

\* lines 604-610: the call, its early return for an empty string, its locals
AddrCallInit ==
    /\ PluginOff
    /\ hdrCall = Idle
    /\ urlCall = Idle
    /\ qpCall = Idle
    /\ emlCall = Idle
    /\ htmlCall = Idle
    /\ \E str \in AddrInputs :
        addrCall = [pc              |-> IF str = "" THEN "done" ELSE "scan",
                    str             |-> str,
                    i               |-> 1,
                    current         |-> "",
                    inQuotes        |-> FALSE,
                    inAngleBrackets |-> FALSE,
                    addresses       |-> <<>>]

\* lines 622-624 and 632-634: a segment that is not blank is parsed and kept
PushAddress(addresses, current) ==
    IF Trim(current) # "" THEN Append(addresses, parseEmailAddress(current))
    ELSE addresses

\* lines 612-630: the frame after one iteration of the scan (i is 1-based
\* here)
ScanStep(f) ==
    LET char == At(f.str, f.i)
    IN  IF char = "\"" /\ At(f.str, f.i - 1) # "\\"
        THEN [f EXCEPT !.inQuotes = ~f.inQuotes,
                       !.current = f.current \o char, !.i = f.i + 1]
        ELSE IF char = "<" /\ ~f.inQuotes
        THEN [f EXCEPT !.inAngleBrackets = TRUE,
                       !.current = f.current \o char, !.i = f.i + 1]
        ELSE IF char = ">" /\ ~f.inQuotes
        THEN [f EXCEPT !.inAngleBrackets = FALSE,
                       !.current = f.current \o char, !.i = f.i + 1]
        ELSE IF IsSeparator(char, f.inQuotes, f.inAngleBrackets)
        THEN [f EXCEPT !.addresses = PushAddress(f.addresses, f.current),
                       !.current = "", !.i = f.i + 1]
        ELSE [f EXCEPT !.current = f.current \o char, !.i = f.i + 1]

\* lines 605-610: the locals of parseEmailAddresses at the start of the scan
ScanStart(str) ==
    [pc |-> "scan", str |-> str, i |-> 1, current |-> "",
     inQuotes |-> FALSE, inAngleBrackets |-> FALSE, addresses |-> <<>>]

RECURSIVE ScanFrom(_)
\* lines 612-636: the rest of the scan, and the value returned
ScanFrom(f) ==
    IF f.i > Len(f.str) THEN PushAddress(f.addresses, f.current)
    ELSE ScanFrom(ScanStep(f))

\* lines 604-637, as called by parseEml
parseEmailAddresses(str) == ScanFrom(ScanStart(str))

\* lines 612-630: one iteration of the scan
ScanChar ==
    /\ addrCall.pc = "scan"
    /\ addrCall.i <= Len(addrCall.str)
    /\ addrCall' = ScanStep(addrCall)
    /\ AddrFrame

\* lines 632-636: the last segment, and the return
ScanEnd ==
    /\ addrCall.pc = "scan"
    /\ addrCall.i > Len(addrCall.str)
    /\ addrCall' = [addrCall EXCEPT
                      !.addresses = PushAddress(addrCall.addresses, addrCall.current),
                      !.pc = "done"]
    /\ AddrFrame

AddrNext == ScanChar \/ ScanEnd

\* parseEmailAddresses applied to every address list of AddrInputs
SpecAddr == AddrCallInit /\ [][AddrNext]_vars

-----------------------------------------------------------------------------
(* Properties of parseEmailAddresses                                        *)

\* the positions of str before p that hold a double quote no backslash precedes
UnescapedQuotesBefore(str, p) ==
    {q \in 1..(p - 1) : At(str, q) = "\"" /\ At(str, q - 1) # "\\"}

\* position p of str lies inside double quotes
InsideQuotes(str, p) == Cardinality(UnescapedQuotesBefore(str, p)) % 2 = 1

\* position p of str lies inside angle brackets: an unquoted '<' before it
\* with no unquoted '>' in between
InsideBrackets(str, p) ==
    \E q \in 1..(p - 1) :
        /\ At(str, q) = "<" /\ ~InsideQuotes(str, q)
        /\ \A r \in (q + 1)..(p - 1) :
               ~(At(str, r) = ">" /\ ~InsideQuotes(str, r))

\* the commas of str outside double quotes and outside angle brackets
TopLevelCommas(str) ==
    {p \in 1..Len(str) :
        At(str, p) = "," /\ ~InsideQuotes(str, p) /\ ~InsideBrackets(str, p)}

RECURSIVE SegmentsFrom(_, _)
\* the pieces of str from position p on, cut at its top-level commas
SegmentsFrom(str, p) ==
    LET later == {c \in TopLevelCommas(str) : c >= p}
    IN  IF later = {} THEN <<From(str, p)>>
        ELSE LET c == CHOOSE x \in later : \A y \in later : x <= y
             IN  <<SubSeq(str, p, c - 1)>> \o SegmentsFrom(str, c + 1)

\* the addresses of the pieces that are not blank, in source order
ExpectedAddresses(str) ==
    LET segs == SelectSeq(SegmentsFrom(str, 1), LAMBDA g : Trim(g) # "")
    IN  [k \in 1..Len(segs) |-> parseEmailAddress(segs[k])]

\* C7: parseEmailAddresses splits at a comma only outside double quotes and
\* outside angle brackets: while it scans, its two flags say whether the
\* position lies inside quotes and inside brackets; when it returns, the
\* addresses are those of the non-blank pieces between the top-level commas,
\* in source order, and the example list yields exactly its two addresses.
C7_SplitsAtTopLevelCommas ==
    /\ addrCall.pc = "scan" =>
          /\ addrCall.inQuotes = InsideQuotes(addrCall.str, addrCall.i)
          /\ addrCall.inAngleBrackets = InsideBrackets(addrCall.str, addrCall.i)
    /\ addrCall.pc = "done" =>
          /\ addrCall.addresses = ExpectedAddresses(addrCall.str)
          /\ addrCall.str = AddrExample =>
                 addrCall.addresses =
                     <<[name |-> "Doe, John", address |-> "john@x.com"],
                       [name |-> "", address |-> "jane@y.com"]>>

\* the example list has been parsed: its quoted comma made no address
C7_Witness ==
    /\ addrCall.pc = "done"
    /\ addrCall.str = AddrExample
    /\ Len(addrCall.addresses) = 2

-----------------------------------------------------------------------------
(* isSafeUrl, sanitizeUrl                                                   *)

\* a scheme test that forgets to lower-case the URL
isSafeUrlCaseSensitive(url) ==
    LET trimmed == Trim(url)
    IN  \/ StartsWithAt(trimmed, "http://", 1)
        \/ StartsWithAt(trimmed, "https://", 1)
        \/ StartsWithAt(trimmed, "mailto:", 1)
        \/ StartsWithAt(trimmed, "cid:", 1)

\* lines 945-951
isSafeUrl(url) ==
    LET trimmed == ToLowerCase(Trim(url))
    IN  \/ StartsWithAt(trimmed, "http://", 1)
        \/ StartsWithAt(trimmed, "https://", 1)
        \/ StartsWithAt(trimmed, "mailto:", 1)
        \/ StartsWithAt(trimmed, "cid:", 1)

\* lines 956-958
sanitizeUrl(url) == IF isSafeUrl(url) THEN url ELSE ""

\* the fragments the URLs are made of
UrlFrags == {" ", "\t", "http://", "HTTPS://", "mailto:", "Cid:",
             "JaVaScRiPt:", "data:", "FILE://", "x"}

\* the longest URL, in fragments
MaxUrlFrags == 3

\* the URLs of the specification's examples
UrlExamples == {"javascript:alert(1)", "data:text/html,<b>x</b>",
                "https://example.com", "mailto:a@b.com", "cid:img1"}

UrlInputs == Concats(UrlFrags, MaxUrlFrags) \cup UrlExamples

UrlCallInit ==
    /\ PluginOff
    /\ hdrCall = Idle
    /\ addrCall = Idle
    /\ qpCall = Idle
    /\ emlCall = Idle
    /\ htmlCall = Idle
    /\ \E url \in UrlInputs : urlCall = [pc |-> "call", url |-> url, ret |-> ""]

\* lines 956-958: the call and its return value
SanitizeUrl ==
    /\ urlCall.pc = "call"
    /\ urlCall' = [urlCall EXCEPT !.ret = sanitizeUrl(urlCall.url), !.pc = "done"]
    /\ UrlFrame

UrlNext == SanitizeUrl

\* sanitizeUrl applied to every URL of UrlInputs
SpecUrl == UrlCallInit /\ [][UrlNext]_vars

-----------------------------------------------------------------------------
(* Properties of sanitizeUrl                                                *)

AllowedSchemes == {"http://", "https://", "mailto:", "cid:"}

\* the text of url after its leading white space spells scheme, in any case
SpellsScheme(url, scheme) ==
    LET lead == SkipSpace(url, 1) - 1
    IN  /\ Len(url) >= lead + Len(scheme)
        /\ \A j \in 1..Len(scheme) : LowerChar(At(url, lead + j)) = At(scheme, j)

\* C8: sanitizeUrl returns its input unchanged when the input, trimmed and
\* lower-cased, starts with http://, https://, mailto: or cid:, and the empty
\* string for every other input; javascript:, data: and file: URLs are
\* rejected in any letter case and behind leading white space.
C8_AllowList ==
    urlCall.pc = "done" =>
       /\ (\E scheme \in AllowedSchemes : SpellsScheme(urlCall.url, scheme))
             => urlCall.ret = urlCall.url
       /\ ~(\E scheme \in AllowedSchemes : SpellsScheme(urlCall.url, scheme))
             => urlCall.ret = ""
       /\ (\E scheme \in {"javascript:", "data:", "file:"} :
               SpellsScheme(urlCall.url, scheme)) => urlCall.ret = ""
       /\ urlCall.url \in {"https://example.com", "mailto:a@b.com", "cid:img1"}
             => urlCall.ret = urlCall.url

\* an upper-case allowed scheme behind white space was accepted unchanged
C8_Witness ==
    /\ urlCall.pc = "done"
    /\ urlCall.url = " \tHTTPS://"
    /\ urlCall.ret = " \tHTTPS://"

-----------------------------------------------------------------------------
(* decodeQuotedPrintableToBuffer, decodeQuotedPrintable                     *)
(* A Buffer is a sequence of bytes.  A decoded text is the sequence of the  *)
(* code points of its characters.                                           *)

\* /=\n/ matches at position k of str
SoftBreakLfAt(str, k) == StartsWithAt(str, "=\n", k)

\* a soft-break removal that knows only the bare line feed: /=\n/g
RemoveSoftBreaksLfOnly(str) ==
    Join([k \in 1..Len(str) |->
            IF SoftBreakLfAt(str, k) \/ SoftBreakLfAt(str, k - 1)
            THEN "" ELSE At(str, k)])

\* the length of the match of /=\r?\n/ at position k of str, 0 when none
SoftBreakLen(str, k) ==
    IF StartsWithAt(str, "=\r\n", k) THEN 3
    ELSE IF StartsWithAt(str, "=\n", k) THEN 2
    ELSE 0

\* lines 680 and 711: str.replace(/=\r?\n/g, '').  A match starts at '=' and
\* holds no other '=', so two matches never overlap: a character goes exactly
\* when a match starts at it or within the two positions before it.
RemoveSoftBreaks(str) ==
    Join([k \in 1..Len(str) |->
            IF \/ SoftBreakLen(str, k) > 0
               \/ SoftBreakLen(str, k - 1) >= 2
               \/ SoftBreakLen(str, k - 2) = 3
            THEN "" ELSE At(str, k)])

\* the char codes of text[lo..hi], each cut to a byte as Buffer.from cuts it
CodesOf(text, lo, hi) ==
    [k \in 1..(hi - lo + 1) |-> CharCode(At(text, lo + k - 1)) % 256]

RECURSIVE QpBytesFrom(_, _)
\* lines 683-696: the byte loop, from the 1-based position i.  The code's
\* test i + 2 < length (0-based) is i + 2 <= Len (1-based).  The characters
\* before the next '=' are copied as their codes; at the '=' the loop takes
\* an escape of two hexadecimal digits or the '=' itself.
QpBytesFrom(text, i) ==
    IF i > Len(text) THEN <<>>
    ELSE LET e == SpanNot(text, {"="}, i)
         IN  CodesOf(text, i, e - 1) \o
             (IF e > Len(text) THEN <<>>
              ELSE IF /\ e + 2 <= Len(text)
                      /\ IsHexDigit(At(text, e + 1))
                      /\ IsHexDigit(At(text, e + 2))
              THEN <<16 * HexValue(At(text, e + 1)) + HexValue(At(text, e + 2))>>
                       \o QpBytesFrom(text, e + 3)
              ELSE <<61>> \o QpBytesFrom(text, e + 1))

\* lines 678-699
decodeQuotedPrintableToBuffer(str) == QpBytesFrom(RemoveSoftBreaks(str), 1)

\* U+FFFD, which the UTF-8 decoder writes for bytes that are no UTF-8
ReplacementChar == 65533

RECURSIVE Utf8DecodeFrom(_, _, _, _, _, _, _)
\* Buffer.prototype.toString('utf-8') (line 708): the UTF-8 decoder, which
\* never throws.  needed/seen count the continuation bytes of the character
\* being read, cp collects its bits, lower..upper is the range allowed for
\* the next continuation byte.
Utf8DecodeFrom(bytes, i, needed, seen, cp, lower, upper) ==
    IF i > Len(bytes)
    THEN IF needed # 0 THEN <<ReplacementChar>> ELSE <<>>
    ELSE LET b == bytes[i]
         IN  IF needed = 0
             THEN IF b <= 127
                  THEN <<b>> \o Utf8DecodeFrom(bytes, i + 1, 0, 0, 0, 128, 191)
                  ELSE IF b >= 194 /\ b <= 223
                  THEN Utf8DecodeFrom(bytes, i + 1, 1, 0, b % 32, 128, 191)
                  ELSE IF b >= 224 /\ b <= 239
                  THEN Utf8DecodeFrom(bytes, i + 1, 2, 0, b % 16,
                                      IF b = 224 THEN 160 ELSE 128,
                                      IF b = 237 THEN 159 ELSE 191)
                  ELSE IF b >= 240 /\ b <= 244
                  THEN Utf8DecodeFrom(bytes, i + 1, 3, 0, b % 8,
                                      IF b = 240 THEN 144 ELSE 128,
                                      IF b = 244 THEN 143 ELSE 191)
                  ELSE <<ReplacementChar>>
                           \o Utf8DecodeFrom(bytes, i + 1, 0, 0, 0, 128, 191)
             ELSE IF b < lower \/ b > upper
                  THEN <<ReplacementChar>>
                           \o Utf8DecodeFrom(bytes, i, 0, 0, 0, 128, 191)
                  ELSE IF seen + 1 = needed
                  THEN <<cp * 64 + (b % 64)>>
                           \o Utf8DecodeFrom(bytes, i + 1, 0, 0, 0, 128, 191)
                  ELSE Utf8DecodeFrom(bytes, i + 1, needed, seen + 1,
                                      cp * 64 + (b % 64), 128, 191)

\* buffer.toString('utf-8')
Utf8Decode(bytes) == Utf8DecodeFrom(bytes, 1, 0, 0, 0, 128, 191)

\* lines 704-713: toString does not throw, so the catch branch is dead
decodeQuotedPrintable(str) == Utf8Decode(decodeQuotedPrintableToBuffer(str))

\* the code points the encoded texts are made of: 'A', '=', line feed, and
\* characters of two, three and four UTF-8 bytes
QpCodePoints == {65, 61, 10, 233, 8364, 128512}

\* the longest encoded text, in characters
MaxQpChars == 3

RECURSIVE SeqsUpTo(_, _)
\* the sequences of at most n elements of S
SeqsUpTo(S, n) ==
    IF n = 0 THEN {<<>>}
    ELSE LET shorter == SeqsUpTo(S, n - 1)
         IN  shorter \cup {Append(q, x) : q \in shorter, x \in S}

\* the UTF-8 bytes of one code point
Utf8Encode(cp) ==
    IF cp < 128 THEN <<cp>>
    ELSE IF cp < 2048 THEN <<192 + (cp \div 64), 128 + (cp % 64)>>
    ELSE IF cp < 65536
    THEN <<224 + (cp \div 4096), 128 + ((cp \div 64) % 64), 128 + (cp % 64)>>
    ELSE <<240 + (cp \div 262144), 128 + ((cp \div 4096) % 64),
           128 + ((cp \div 64) % 64), 128 + (cp % 64)>>

RECURSIVE Utf8EncodeAll(_)
\* the UTF-8 bytes of a text
Utf8EncodeAll(cps) ==
    IF cps = <<>> THEN <<>> ELSE Utf8Encode(Head(cps)) \o Utf8EncodeAll(Tail(cps))

\* the escape =XX of one byte, with upper- or lower-case digits
QpEscape(b, lowerCase) ==
    LET digits == IF lowerCase THEN "0123456789abcdef" ELSE HexDigits
    IN  "=" \o At(digits, (b \div 16) + 1) \o At(digits, (b % 16) + 1)

RECURSIVE QpEncodeFrom(_, _, _, _, _)
\* the escapes of bytes[k..], a soft line break '=' + eol after every
\* `every` escapes that another escape follows (none when every = 0)
QpEncodeFrom(bytes, k, every, eol, lowerCase) ==
    IF k > Len(bytes) THEN ""
    ELSE QpEscape(bytes[k], lowerCase)
         \o (IF every > 0 /\ k % every = 0 /\ k < Len(bytes)
             THEN "=" \o eol ELSE "")
         \o QpEncodeFrom(bytes, k + 1, every, eol, lowerCase)

\* the texts whose encodings are decoded, and the ways to lay them out
QpTexts == SeqsUpTo(QpCodePoints, MaxQpChars)
QpBreakEvery == {0, 1, 2}
QpLineEndings == {"\n", "\r\n"}

\* quoted-printable input that no encoder wrote
QpRawFrags == {"=", "A", "=4", "=41", "=\n", "=\r\n", "=C3", "=a9", "=G1", "\r", "\n"}
MaxQpFrags == 2

QpFrameOf(str, plain, encoded) ==
    [str      |-> str,
     plain    |-> plain,
     encoded  |-> encoded,
     bufferPc |-> "call", buffer |-> <<>>,
     textPc   |-> "call", text   |-> <<>>]

\* both decoders are about to be called on the same string: the encoding of
\* a text (which the frame remembers as plain), or raw input
QpCallInit ==
    /\ PluginOff
    /\ hdrCall = Idle
    /\ addrCall = Idle
    /\ urlCall = Idle
    /\ emlCall = Idle
    /\ htmlCall = Idle
    /\ \/ \E plain \in QpTexts, every \in QpBreakEvery,
             eol \in QpLineEndings, lowerCase \in BOOLEAN :
             qpCall = QpFrameOf(QpEncodeFrom(Utf8EncodeAll(plain), 1, every,
                                             eol, lowerCase),
                                plain, TRUE)
       \/ \E str \in Concats(QpRawFrags, MaxQpFrags) :
             qpCall = QpFrameOf(str, <<>>, FALSE)

\* lines 678-699: the binary-mode call and its return value
DecodeQuotedPrintableToBuffer ==
    /\ qpCall.bufferPc = "call"
    /\ qpCall' = [qpCall EXCEPT
                    !.buffer = decodeQuotedPrintableToBuffer(qpCall.str),
                    !.bufferPc = "done"]
    /\ QpFrame

\* lines 704-713: the text-mode call and its return value
DecodeQuotedPrintable ==
    /\ qpCall.textPc = "call"
    /\ qpCall' = [qpCall EXCEPT
                    !.text = decodeQuotedPrintable(qpCall.str),
                    !.textPc = "done"]
    /\ QpFrame

QpNext == DecodeQuotedPrintableToBuffer \/ DecodeQuotedPrintable

\* both quoted-printable decoders applied to every input of QpCallInit
SpecQp == QpCallInit /\ [][QpNext]_vars

-----------------------------------------------------------------------------
(* Properties of the quoted-printable decoders                              *)

\* C10: decoding, in text mode, the =XX encoding of a text's UTF-8 bytes
\* (soft line breaks between the escapes) gives the text back, multi-byte
\* characters included; the binary mode returns exactly the text's UTF-8
\* bytes; and on every input the text-mode result is the UTF-8 reading of
\* the bytes the binary mode returns.
C10_QuotedPrintableRoundTrip ==
    /\ (qpCall.textPc = "done" /\ qpCall.encoded) => qpCall.text = qpCall.plain
    /\ (qpCall.bufferPc = "done" /\ qpCall.encoded)
          => qpCall.buffer = Utf8EncodeAll(qpCall.plain)
    /\ (qpCall.textPc = "done" /\ qpCall.bufferPc = "done")
          => qpCall.text = Utf8Decode(qpCall.buffer)

\* a three-byte character whose escapes a CRLF soft break separates has been
\* decoded in both modes
C10_Witness ==
    /\ qpCall.textPc = "done"
    /\ qpCall.bufferPc = "done"
    /\ qpCall.str = "=E2=\r\n=82=\r\n=AC"
    /\ qpCall.text = <<8364>>

-----------------------------------------------------------------------------
(* Text of decoded bytes, base64, decodeMimeWord                            *)

\* String.fromCharCode for the model's alphabet, which is ASCII: the
\* character of a code point, '?' for a code point the alphabet lacks
CharOfCode(cp) ==
    CASE cp = 9  -> "\t"
      [] cp = 10 -> "\n"
      [] cp = 12 -> "\f"
      [] cp = 13 -> "\r"
      [] cp >= 32 /\ cp <= 95  -> At(AsciiLow, cp - 31)
      [] cp >= 97 /\ cp <= 126 -> At(AsciiHigh, cp - 96)
      [] OTHER -> "?"

\* the string of a sequence of code points
StringOfCodes(cps) == Join([k \in 1..Len(cps) |-> CharOfCode(cps[k])])

\* buffer.toString('utf-8') as a string
Utf8ToString(bytes) == StringOfCodes(Utf8Decode(bytes))

Base64Chars ==
    "ABCDEFGHIJKLMNOPQRSTUVWXYZabcdefghijklmnopqrstuvwxyz0123456789+/"

\* the 6-bit values of the base64 characters of text up to its first '=';
\* Buffer.from skips every character outside the alphabet
Base64Sextets(text) ==
    LET stop == SpanNot(text, {"="}, 1)
    IN  Flatten([k \in 1..(stop - 1) |->
                   LET v == IndexOfFrom(Base64Chars, At(text, k), 1)
                   IN  IF v > 0 THEN <<v - 1>> ELSE <<>>])

RECURSIVE Base64Bytes(_, _)
\* the bytes of the sextets q[i..]: three of every four, two of a last three,
\* one of a last two, none of a last one
Base64Bytes(q, i) ==
    LET n == Len(q) - i + 1
    IN  IF n <= 1 THEN <<>>
        ELSE IF n = 2 THEN <<q[i] * 4 + (q[i + 1] \div 16)>>
        ELSE IF n = 3
        THEN <<q[i] * 4 + (q[i + 1] \div 16),
               (q[i + 1] % 16) * 16 + (q[i + 2] \div 4)>>
        ELSE <<q[i] * 4 + (q[i + 1] \div 16),
               (q[i + 1] % 16) * 16 + (q[i + 2] \div 4),
               (q[i + 2] % 4) * 64 + q[i + 3]>> \o Base64Bytes(q, i + 4)

\* Buffer.from(text, 'base64')
BufferFromBase64(text) == Base64Bytes(Base64Sextets(text), 1)

\* str.replace(/c/g, by) for a single character c
ReplaceChar(str, c, by) ==
    Join([k \in 1..Len(str) |-> IF At(str, k) = c THEN by ELSE At(str, k)])

\* lines 645-667: the text of one encoded word (Q: lines 651-666 repeat the
\* byte loop of the quoted-printable decoder, after '_' became a space)
DecodedWord(encoding, text) ==
    IF ToLowerCase(encoding) = "b"
    THEN Utf8ToString(BufferFromBase64(text))
    ELSE Utf8ToString(QpBytesFrom(ReplaceChar(text, "_", " "), 1))

\* the end (exclusive) of the match of /=\?([^?]+)\?([BQ])\?([^?]+)\?=/i at
\* position p of str, 0 when it does not match there
MimeWordEnd(str, p) ==
    LET c1 == SpanNot(str, {"?"}, p + 2)      \* the '?' after the charset
        t1 == SpanNot(str, {"?"}, c1 + 3)     \* the '?' after the text
    IN  IF /\ StartsWithAt(str, "=?", p)
           /\ c1 > p + 2
           /\ At(str, c1) = "?"
           /\ ToLowerCase(At(str, c1 + 1)) \in {"b", "q"}
           /\ At(str, c1 + 2) = "?"
           /\ t1 > c1 + 3
           /\ StartsWithAt(str, "?=", t1)
        THEN t1 + 2
        ELSE 0

RECURSIVE DecodeMimeWordFrom(_, _)
\* lines 642-673: every encoded word of str[p..] replaced by its text; the
\* text before the next encoded word is kept
DecodeMimeWordFrom(str, p) ==
    LET m == FirstOf({k \in p..Len(str) : MimeWordEnd(str, k) > 0})
    IN  IF m = 0 THEN From(str, p)
        ELSE LET e  == MimeWordEnd(str, m)
                 c1 == SpanNot(str, {"?"}, m + 2)
             IN  SubSeq(str, p, m - 1)
                 \o DecodedWord(At(str, c1 + 1), SubSeq(str, c1 + 3, e - 3))
                 \o DecodeMimeWordFrom(str, e)

\* lines 642-673
decodeMimeWord(str) == DecodeMimeWordFrom(str, 1)

\* str.replace(/\s/g, '')
RemoveSpace(str) ==
    Join([k \in 1..Len(str) |-> IF IsSpace(At(str, k)) THEN "" ELSE At(str, k)])

\* lines 718-724: toString does not throw, so the catch branch is dead
decodeBase64(str) == Utf8ToString(BufferFromBase64(RemoveSpace(str)))

-----------------------------------------------------------------------------
(* The header block: its end, parseHeaders, the header accessors            *)

\* the length of the match of /\r?\n/ at position i of text, 0 when none
LineBreakLen(text, i) ==
    IF StartsWithAt(text, "\r\n", i) THEN 2
    ELSE IF At(text, i) = "\n" THEN 1
    ELSE 0

\* the length of the match of /\r?\n\r?\n/ at position i of text, 0 when none
BlankLineLen(text, i) ==
    LET a == LineBreakLen(text, i)
        b == LineBreakLen(text, i + a)
    IN  IF a = 0 \/ b = 0 THEN 0 ELSE a + b

\* the first position >= i of text where /\r?\n\r?\n/ matches, 0 when none
BlankLineFrom(text, i) ==
    FirstOf({k \in i..Len(text) : BlankLineLen(text, k) > 0})

\* a search that takes a text without a blank line to be all header
HeaderEndIndexOrEnd(text) ==
    IF BlankLineFrom(text, 1) = 0 THEN Len(text) + 1 ELSE BlankLineFrom(text, 1)

\* lines 841 and 1059: text.search(/\r?\n\r?\n/) + 1, so 0 is the code's -1
HeaderEndIndex(text) == BlankLineFrom(text, 1)

\* lines 846 and 1064: text.substring(0, headerEndIndex)
HeaderTextOf(text) == SubSeq(text, 1, HeaderEndIndex(text) - 1)

\* lines 847 and 1065:
\* text.substring(headerEndIndex).replace(/^\r?\n\r?\n/, '')
BodyTextOf(text) ==
    LET i == HeaderEndIndex(text)
    IN  From(text, i + BlankLineLen(text, i))

\* the end (exclusive) of the match of /\r?\n[\t ]+/ at position k of text,
\* 0 when it does not match there
FoldEnd(text, k) ==
    LET n == LineBreakLen(text, k)
        e == SpanIn(text, {"\t", " "}, k + n)
    IN  IF n > 0 /\ e > k + n THEN e ELSE 0

RECURSIVE UnfoldFrom(_, _)
\* line 733: headerText.replace(/\r?\n[\t ]+/g, ' '), from position p
UnfoldFrom(text, p) ==
    LET m == FirstOf({k \in p..Len(text) : FoldEnd(text, k) > 0})
    IN  IF m = 0 THEN From(text, p)
        ELSE SubSeq(text, p, m - 1) \o " " \o UnfoldFrom(text, FoldEnd(text, m))

RECURSIVE SplitLinesFrom(_, _)
\* line 735: text.split(/\r?\n/), from the line that starts at a
SplitLinesFrom(text, a) ==
    LET m == FirstOf({k \in a..Len(text) : LineBreakLen(text, k) > 0})
    IN  IF m = 0 THEN <<From(text, a)>>
        ELSE <<SubSeq(text, a, m - 1)>>
                 \o SplitLinesFrom(text, m + LineBreakLen(text, m))

\* headers.get(key): "" stands for undefined, which every use treats alike
Get(headers, key) == IF key \in DOMAIN headers THEN headers[key] ELSE ""

\* a map whose set keeps the value a key already has
SetKeepingFirst(headers, key, value) ==
    [k \in DOMAIN headers \cup {key} |->
        IF k \in DOMAIN headers THEN headers[k] ELSE value]

\* headers.set(key, value)
Set(headers, key, value) ==
    [k \in DOMAIN headers \cup {key} |-> IF k = key THEN value ELSE headers[k]]

RECURSIVE HeadersOfLines(_, _, _)
\* lines 737-744: the loop over the logical lines, from line n
HeadersOfLines(lines, n, headers) ==
    IF n > Len(lines) THEN headers
    ELSE LET line       == lines[n]
             colonIndex == IndexOfFrom(line, ":", 1)
         IN  IF colonIndex > 1
             THEN HeadersOfLines(lines, n + 1,
                      Set(headers,
                          ToLowerCase(Trim(SubSeq(line, 1, colonIndex - 1))),
                          decodeMimeWord(Trim(From(line, colonIndex + 1)))))
             ELSE HeadersOfLines(lines, n + 1, headers)

\* the empty Map
NoHeaders == [k \in {} |-> ""]

\* lines 729-747
parseHeaders(headerText) ==
    HeadersOfLines(SplitLinesFrom(UnfoldFrom(headerText, 1), 1), 1, NoHeaders)

-----------------------------------------------------------------------------
(* getContentType, getEncoding, extractBoundary, getFilename                *)

\* lines 767-770
getContentType(headers) ==
    LET ct == IF Get(headers, "content-type") = "" THEN "text/plain"
              ELSE Get(headers, "content-type")
    IN  ToLowerCase(Trim(SubSeq(ct, 1, SpanNot(ct, {";"}, 1) - 1)))

\* lines 760-762
getEncoding(headers) ==
    IF Get(headers, "content-transfer-encoding") = "" THEN "7bit"
    ELSE ToLowerCase(Get(headers, "content-transfer-encoding"))

\* the group of /\s*=\s*"?([^";]+)"?/ matched at position a of text, "" when
\* it does not match there.  The group is never empty.  When nothing follows
\* the white space after '=', the regex backtracks and the group is the last
\* white-space character.
ParamValueAt(text, a) ==
    LET eq  == SkipSpace(text, a)
        v   == SkipSpace(text, eq + 1)
        q   == IF At(text, v) = "\"" THEN v + 1 ELSE v
        end == SpanNot(text, {"\"", ";"}, q)
    IN  IF At(text, eq) # "=" THEN ""
        ELSE IF end > q THEN SubSeq(text, q, end - 1)
        ELSE IF v > eq + 1 THEN At(text, v - 1)
        ELSE ""

\* the group of /name\s*=\s*"?([^";]+)"?/i at its leftmost match in text,
\* "" when text has no match (match === null)
ParamOf(text, name) ==
    LET lower == ToLowerCase(text)
        hits  == {k \in 1..Len(text) :
                     /\ StartsWithAt(lower, name, k)
                     /\ ParamValueAt(text, k + Len(name)) # ""}
    IN  IF hits = {} THEN "" ELSE ParamValueAt(text, FirstOf(hits) + Len(name))

\* a boundary extraction that keeps the quotes of a quoted boundary
extractBoundaryKeepingQuotes(contentType) ==
    LET b == ParamOf(contentType, "boundary")
    IN  IF b = "" THEN "" ELSE "\"" \o b \o "\""

\* lines 752-755: "" stands for null
extractBoundary(contentType) == ParamOf(contentType, "boundary")

\* the characters that end the filename group: [^"';\r\n]
FilenameStop == {"\"", "'", ";", "\r", "\n"}

\* the group of /filename\*?=\s*(?:utf-8'')?["']?([^"';\r\n]+)["']?/i matched
\* at position p of text (lower is text in lower case), "" when it does not
\* match there.  The optional pieces are taken when present and given back,
\* last first, while the group would be empty; then the white space after
\* '=' is given back, one character at a time.
FilenameAt(text, lower, p) ==
    LET a  == IF At(text, p + 8) = "*" THEN p + 9 ELSE p + 8
        w  == SkipSpace(text, a + 1)
        u  == IF StartsWithAt(lower, "utf-8''", w) THEN w + 7 ELSE w
        uq == IF At(text, u) \in {"\"", "'"} THEN u + 1 ELSE u
        wq == IF At(text, w) \in {"\"", "'"} THEN w + 1 ELSE w
        GroupFrom(k) == SubSeq(text, k, SpanNot(text, FilenameStop, k) - 1)
        back == LastOf({k \in (a + 1)..(w - 1) : At(text, k) \notin FilenameStop})
    IN  IF ~StartsWithAt(lower, "filename", p) \/ At(text, a) # "=" THEN ""
        ELSE IF GroupFrom(uq) # "" THEN GroupFrom(uq)
        ELSE IF GroupFrom(u) # "" THEN GroupFrom(u)
        ELSE IF GroupFrom(wq) # "" THEN GroupFrom(wq)
        ELSE IF GroupFrom(w) # "" THEN GroupFrom(w)
        ELSE IF back # 0 THEN GroupFrom(back)
        ELSE ""

\* line 789: the group of the leftmost match in disposition, "" for null
FilenameOf(disposition) ==
    LET lower == ToLowerCase(disposition)
        hits  == {k \in 1..Len(disposition) :
                     FilenameAt(disposition, lower, k) # ""}
    IN  IF hits = {} THEN "" ELSE FilenameAt(disposition, lower, FirstOf(hits))

\* the bytes of the n escapes %XX at position p of str, <<>> unless n
\* well-formed escapes stand there
EscapedBytes(str, p, n) ==
    IF \A k \in 0..(n - 1) :
           /\ At(str, p + 3 * k) = "%"
           /\ IsHexDigit(At(str, p + 3 * k + 1))
           /\ IsHexDigit(At(str, p + 3 * k + 2))
    THEN [k \in 1..n |-> 16 * HexValue(At(str, p + 3 * k - 2))
                         + HexValue(At(str, p + 3 * k - 1))]
    ELSE <<>>

\* the number of bytes of the UTF-8 character that starts with byte b, 0 when
\* no character starts with it
Utf8Length(b) ==
    IF b < 128 THEN 1
    ELSE IF b >= 194 /\ b <= 223 THEN 2
    ELSE IF b >= 224 /\ b <= 239 THEN 3
    ELSE IF b >= 240 /\ b <= 244 THEN 4
    ELSE 0

RECURSIVE DecodeUriFrom(_, _)
\* decodeURIComponent(str) from position p (line 791): ok is FALSE when the
\* built-in throws URIError, which it does for a '%' that two hexadecimal
\* digits do not follow and for escapes that are no UTF-8 character
DecodeUriFrom(str, p) ==
    LET m == SpanNot(str, {"%"}, p)
    IN  IF m > Len(str) THEN [ok |-> TRUE, value |-> From(str, p)]
        ELSE LET lead  == EscapedBytes(str, m, 1)
                 n     == IF lead = <<>> THEN 0 ELSE Utf8Length(lead[1])
                 bytes == IF n = 0 THEN <<>> ELSE EscapedBytes(str, m, n)
                 cps   == Utf8Decode(bytes)
                 valid == /\ bytes # <<>>
                          /\ Len(cps) = 1
                          /\ cps[1] = ReplacementChar => bytes = <<239, 191, 189>>
                 rest  == IF valid THEN DecodeUriFrom(str, m + 3 * n)
                          ELSE [ok |-> FALSE, value |-> ""]
             IN  IF rest.ok
                 THEN [ok |-> TRUE,
                       value |-> SubSeq(str, p, m - 1) \o StringOfCodes(cps)
                                     \o rest.value]
                 ELSE [ok |-> FALSE, value |-> ""]

\* decodeURIComponent
decodeURIComponent(str) == DecodeUriFrom(str, 1)

\* lines 784-801: ok is FALSE when the call throws; value "" stands for null
getFilename(headers) ==
    LET disposition == Get(headers, "content-disposition")
        contentType == Get(headers, "content-type")
        group       == FilenameOf(disposition)
        decoded     == decodeURIComponent(group)
    IN  IF group # ""
        THEN IF decoded.ok
             THEN [ok |-> TRUE, value |-> decodeMimeWord(decoded.value)]
             ELSE [ok |-> FALSE, value |-> ""]
        ELSE [ok |-> TRUE, value |-> decodeMimeWord(ParamOf(contentType, "name"))]

-----------------------------------------------------------------------------
(* decodeContent, decodeContentToBuffer, the boundary split                 *)

\* lines 806-815
decodeContent(content, encoding) ==
    IF encoding = "base64" THEN decodeBase64(content)
    ELSE IF encoding = "quoted-printable"
    THEN StringOfCodes(decodeQuotedPrintable(content))
    ELSE content

\* lines 820-830; Buffer.from(content, 'binary') keeps the low byte of every
\* character
decodeContentToBuffer(content, encoding) ==
    IF encoding = "base64" THEN BufferFromBase64(RemoveSpace(content))
    ELSE IF encoding = "quoted-printable"
    THEN decodeQuotedPrintableToBuffer(content)
    ELSE [k \in 1..Len(content) |-> CharCode(At(content, k)) % 256]

\* the characters escapeRegex escapes: [.*+?^${}()|[\]\\]
RegexSpecials ==
    {".", "*", "+", "?", "^", "$", "{", "}", "(", ")", "|", "[", "]", "\\"}

\* lines 908-910
escapeRegex(str) ==
    Join([k \in 1..Len(str) |->
            IF At(str, k) \in RegexSpecials THEN "\\" \o At(str, k)
            ELSE At(str, k)])

RECURSIVE RegexLiteral(_, _)
\* the text a pattern of plain and escaped characters matches, from
\* position p of the pattern
RegexLiteral(pattern, p) ==
    IF p > Len(pattern) THEN ""
    ELSE IF At(pattern, p) = "\\"
    THEN At(pattern, p + 1) \o RegexLiteral(pattern, p + 2)
    ELSE At(pattern, p) \o RegexLiteral(pattern, p + 1)

RECURSIVE SplitFrom(_, _, _)
\* the pieces of text from position a that text.split(/marker(?:--)?/) returns
SplitFrom(text, marker, a) ==
    LET m    == IndexOfFrom(text, marker, a)
        next == m + Len(marker)
    IN  IF m = 0 THEN <<From(text, a)>>
        ELSE <<SubSeq(text, a, m - 1)>>
                 \o SplitFrom(text, marker,
                              IF StartsWithAt(text, "--", next) THEN next + 2
                              ELSE next)

\* lines 857 and 1094: bodyText.split(new RegExp(`--${escapeRegex(boundary)}(?:--)?`))
SplitAtBoundary(bodyText, boundary) ==
    SplitFrom(bodyText, RegexLiteral("--" \o escapeRegex(boundary), 1), 1)

\* lines 859-861 and 1095-1097: the pieces of parts that are walked, trimmed.
\* The first piece is never walked; the last one is when withLast.
PartsToWalkSkippingLast(parts, withLast) ==
    Flatten([k \in 1..(Len(parts) - 2) |->
               LET part == Trim(parts[k + 1])
               IN  IF part # "" /\ part # "--" THEN <<part>> ELSE <<>>])

PartsToWalk(parts, withLast) ==
    Flatten([k \in 1..(IF withLast THEN Len(parts) - 1 ELSE Len(parts) - 2) |->
               LET part == Trim(parts[k + 1])
               IN  IF part # "" /\ part # "--" THEN <<part>> ELSE <<>>])

\* str.replace(/[<>]/g, '')
RemoveAngles(str) == ReplaceChar(ReplaceChar(str, "<", ""), ">", "")

-----------------------------------------------------------------------------
(* Date                                                                     *)

\* the date field's initial value null (line 1051)
Null == [kind |-> "null"]

\* the strings of the model's documents that Date.parse understands, with
\* their time in seconds since the epoch
ParseableDates ==
    [s \in {"Mon, 15 Jan 2024 10:30:00 +0000", "2024-01-15T10:30:00Z"}
       |-> 1705314600]

\* new Date(dateStr), line 1081: the constructor never throws; a string that
\* Date.parse does not understand gives a Date whose time value is NaN
NewDate(dateStr) ==
    IF dateStr \in DOMAIN ParseableDates
    THEN [kind |-> "Date", isNaN |-> FALSE, time |-> ParseableDates[dateStr]]
    ELSE [kind |-> "Date", isNaN |-> TRUE, time |-> 0]

-----------------------------------------------------------------------------
(* parseMimePart and parseEml                                               *)

\* lines 1045-1056
DefaultResult ==
    [from |-> <<>>, to |-> <<>>, cc |-> <<>>, bcc |-> <<>>, subject |-> "",
     date |-> Null, messageId |-> "", textBody |-> "", htmlBody |-> "",
     attachments |-> <<>>]

\* str.includes(lit)
Includes(str, lit) == IndexOfFrom(str, lit, 1) # 0

\* lines 891-892: the test that makes a part an attachment
IsAttachment(filename, disposition, contentType) ==
    \/ filename # ""
    \/ Includes(disposition, "attachment")
    \/ ~StartsWithAt(contentType, "text/", 1)
          /\ ~StartsWithAt(contentType, "multipart/", 1)

\* lines 894-899; "" stands for an undefined contentId
NewAttachment(filename, headers, contentType, bodyText, encoding, count) ==
    [filename    |-> IF filename # "" THEN filename
                     ELSE "attachment_" \o ToString(count + 1),
     contentType |-> contentType,
     content     |-> decodeContentToBuffer(bodyText, encoding),
     contentId   |-> RemoveAngles(Get(headers, "content-id"))]

\* what one call leaves: the result, the parts it goes on to parse (in
\* order), and whether it throws
Returns(result, parts) == [threw |-> FALSE, result |-> result, parts |-> parts]

Throws(result) == [threw |-> TRUE, result |-> result, parts |-> <<>>]

\* lines 886-902, given the value of getFilename(headers)
AttachmentStep(filename, headers, bodyText, contentType, encoding, result) ==
    IF ~filename.ok THEN Throws(result)
    ELSE IF IsAttachment(filename.value, Get(headers, "content-disposition"),
                         contentType)
    THEN Returns([result EXCEPT
                    !.attachments =
                        Append(@, NewAttachment(filename.value, headers,
                                                contentType, bodyText,
                                                encoding, Len(@)))], <<>>)
    ELSE Returns(result, <<>>)

\* lines 855-866 and 1092-1101: the parts of a multipart body that are parsed
PartsOf(bodyText, boundary, withLast) ==
    IF boundary # ""
    THEN PartsToWalk(SplitAtBoundary(bodyText, boundary), withLast)
    ELSE <<>>

\* lines 849-902, given the headers and the body of the part
MimePartBody(headers, bodyText, result) ==
    LET contentType == getContentType(headers)
        encoding    == getEncoding(headers)
    IN  IF StartsWithAt(contentType, "multipart/", 1)
        THEN Returns(result,
                     PartsOf(bodyText,
                             extractBoundary(Get(headers, "content-type")),
                             FALSE))
        ELSE IF contentType = "text/plain"
        THEN IF result.textBody = ""
             THEN Returns([result EXCEPT
                             !.textBody = decodeContent(bodyText, encoding)], <<>>)
             ELSE Returns(result, <<>>)
        ELSE IF contentType = "text/html"
        THEN IF result.htmlBody = ""
             THEN Returns([result EXCEPT
                             !.htmlBody = decodeContent(bodyText, encoding)], <<>>)
             ELSE Returns(result, <<>>)
        ELSE AttachmentStep(getFilename(headers), headers, bodyText,
                            contentType, encoding, result)

\* lines 835-903, one call of parseMimePart without the calls it makes for
\* the parts of a multipart
MimePartStep(partText, result) ==
    IF HeaderEndIndex(partText) = 0 THEN Returns(result, <<>>)
    ELSE MimePartBody(parseHeaders(HeaderTextOf(partText)),
                      BodyTextOf(partText), result)

\* lines 1068-1085: the result after the top-level headers are read
HeaderFields(headers) ==
    [DefaultResult EXCEPT
       !.from      = parseEmailAddresses(Get(headers, "from")),
       !.to        = parseEmailAddresses(Get(headers, "to")),
       !.cc        = parseEmailAddresses(Get(headers, "cc")),
       !.bcc       = parseEmailAddresses(Get(headers, "bcc")),
       !.subject   = Get(headers, "subject"),
       !.messageId = RemoveAngles(Get(headers, "message-id")),
       !.date      = IF Get(headers, "date") # ""
                     THEN NewDate(Get(headers, "date")) ELSE Null]

\* lines 1087-1106, given the result so far, the headers and the body
ParseEmlBody(fields, headers, bodyText) ==
    LET contentType == getContentType(headers)
        encoding    == getEncoding(headers)
    IN  IF StartsWithAt(contentType, "multipart/", 1)
        THEN Returns(fields,
                     PartsOf(bodyText,
                             extractBoundary(Get(headers, "content-type")),
                             TRUE))
        ELSE IF contentType = "text/plain"
        THEN Returns([fields EXCEPT
                        !.textBody = decodeContent(bodyText, encoding)], <<>>)
        ELSE IF contentType = "text/html"
        THEN Returns([fields EXCEPT
                        !.htmlBody = decodeContent(bodyText, encoding)], <<>>)
        ELSE Returns(fields, <<>>)

\* lines 1064-1106, given the headers
ParseEmlHeaders(headers, bodyText) ==
    ParseEmlBody(HeaderFields(headers), headers, bodyText)

\* lines 1044-1106, parseEml up to its first call of parseMimePart: the result
\* so far and the parts it goes on to parse
ParseEmlStep(content) ==
    IF HeaderEndIndex(content) = 0 THEN Returns(DefaultResult, <<>>)
    ELSE ParseEmlHeaders(parseHeaders(HeaderTextOf(content)), BodyTextOf(content))

-----------------------------------------------------------------------------
(* The documents parseEml is applied to                                     *)

\* the part sequences of a multipart document hold at most MaxParts parts
MaxParts == 2

\* the line breaks of a document
Eols == {"\n", "\r\n"}

RECURSIVE JoinWith(_, _)
\* the lines, each followed by eol
JoinWith(lines, eol) ==
    IF lines = <<>> THEN ""
    ELSE Head(lines) \o eol \o JoinWith(Tail(lines), eol)

\* an entity: header lines, a blank line, the body
Entity(lines, body, eol) == JoinWith(lines, eol) \o eol \o body

RECURSIVE Delimited(_, _, _)
\* the parts, each behind a delimiter line of the boundary
Delimited(parts, boundary, eol) ==
    IF parts = <<>> THEN ""
    ELSE "--" \o boundary \o eol \o Head(parts) \o eol
             \o Delimited(Tail(parts), boundary, eol)

\* a multipart body: the delimited parts and, when closed, the closing
\* delimiter
MultipartBody(parts, boundary, eol, closed) ==
    Delimited(parts, boundary, eol)
        \o (IF closed THEN "--" \o boundary \o "--" \o eol ELSE "")

PlainBody == "Hello"
HtmlBody == "<b>Hi</b>"

\* the leaf parts of the documents, by kind
LeafPart(kind, eol) ==
    CASE kind = "plain" ->
           Entity(<<"Content-Type: text/plain; charset=utf-8">>, PlainBody, eol)
      [] kind = "plain2" ->
           Entity(<<"Content-Type: text/plain",
                    "Content-Transfer-Encoding: quoted-printable">>,
                  "2=3D=\r\n2", eol)
      [] kind = "plainEmpty" ->
           Entity(<<"Content-Type: text/plain",
                    "Content-Transfer-Encoding: base64">>, "====", eol)
      [] kind = "plainNamed" ->
           Entity(<<"Content-Type: text/plain; name=\"notes.txt\"",
                    "Content-Disposition: attachment; filename=\"notes.txt\"">>,
                  "Note", eol)
      [] kind = "html" ->
           Entity(<<"Content-Type: text/html">>, HtmlBody, eol)
      [] kind = "htmlEmpty" ->
           Entity(<<"Content-Type: Text/HTML",
                    "Content-Transfer-Encoding: BASE64">>, "=", eol)
      [] kind = "html2" ->
           Entity(<<"Content-Type: text/html",
                    "Content-Disposition: inline">>, "<i>Later</i>", eol)
      [] kind = "pdf" ->
           Entity(<<"Content-Type: application/pdf",
                    "Content-Disposition: attachment; filename=\"a%20b.pdf\"",
                    "Content-Transfer-Encoding: base64">>, "JVBE\r\nRg==", eol)
      [] kind = "pdfPercent" ->
           Entity(<<"Content-Type: application/pdf",
                    "Content-Disposition: attachment; filename=\"100%.pdf\"">>,
                  "%PDF", eol)
      [] kind = "image" ->
           Entity(<<"Content-Type: image/png", "Content-ID: <img1>",
                    "Content-Transfer-Encoding: base64">>, "iVBO", eol)
      [] kind = "calendar" ->
           Entity(<<"Content-Type: text/calendar">>, "BEGIN:VCALENDAR", eol)
      [] kind = "bare" -> "Content-Type: text/plain"

\* a multipart/alternative part of a text/plain and a text/html part
Alternative(eol, closed) ==
    Entity(<<"Content-Type: multipart/alternative; boundary=\"inner\"">>,
           MultipartBody(<<LeafPart("plain", eol), LeafPart("html", eol)>>,
                         "inner", eol, closed), eol)

LeafKinds ==
    {"plain", "plain2", "plainEmpty", "plainNamed", "html", "htmlEmpty",
     "html2", "pdf", "pdfPercent", "image", "calendar", "bare"}

PartKinds == LeafKinds \cup {"alternative", "alternativeOpen"}

PartOf(kind, eol) ==
    IF kind = "alternative" THEN Alternative(eol, TRUE)
    ELSE IF kind = "alternativeOpen" THEN Alternative(eol, FALSE)
    ELSE LeafPart(kind, eol)

\* the header lines every document starts with
AddressLines ==
    <<"From: \"Doe, J\" <j@x.org>, k@y.org", "To: a@b.c",
      "Subject: =?UTF-8?B?SGk=?= there", "Message-ID: <m1@x.org>">>

\* the Date header lines: none, two parseable dates, one that is no date
DateLines ==
    {<<>>, <<"Date: Mon, 15 Jan 2024 10:30:00 +0000">>,
     <<"Date: 2024-01-15T10:30:00Z">>, <<"Date: not a date">>}

\* a multipart/mixed document of the parts of the kinds
MixedDoc(kinds, eol, closed) ==
    Entity(AddressLines
               \o <<"Date: Mon, 15 Jan 2024 10:30:00 +0000",
                    "Content-Type: multipart/mixed; boundary=\"out.er\"">>,
           "preamble" \o eol
               \o MultipartBody([k \in 1..Len(kinds) |-> PartOf(kinds[k], eol)],
                                "out.er", eol, closed),
           eol)

MixedDocs ==
    {MixedDoc(kinds, eol, TRUE) :
        kinds \in SeqsUpTo(PartKinds, MaxParts), eol \in Eols}

\* the Content-Type lines of the documents that are a single entity
SingleTypes ==
    {<<>>, <<"Content-Type: text/plain">>, <<"Content-Type: text/html">>,
     <<"Content-Type: application/pdf">>,
     <<"Content-Type: multipart/mixed">>}

SingleDocs ==
    {Entity(AddressLines \o date \o type, PlainBody \o eol, eol) :
        date \in DateLines, type \in SingleTypes, eol \in Eols}

\* documents without a blank line: header lines only, with and without the
\* last line break and with a body line that no blank line precedes
UnseparatedDocs ==
    {JoinWith(AddressLines \o date, eol) \o tail :
        date \in DateLines, eol \in Eols,
        tail \in {"", "Content-Type: text/plain", PlainBody \o "\r"}}
      \cup {"", "\n", "\r\n", "\r\r", "no header"}

EmlInputs == MixedDocs \cup SingleDocs \cup UnseparatedDocs

EmlCallInit ==
    /\ PluginOff
    /\ hdrCall = Idle
    /\ addrCall = Idle
    /\ urlCall = Idle
    /\ qpCall = Idle
    /\ htmlCall = Idle
    /\ \E content \in EmlInputs :
          emlCall = [pc |-> "call", content |-> content,
                     result |-> DefaultResult, pending |-> <<>>]

\* the frame after a call that leaves step, with the parts rest still to
\* parse behind the step's: an exception leaves parseEml (no catch in lines
\* 1044-1109), and parseEml returns after the last part
Continue(f, step, rest) ==
    IF step.threw THEN [f EXCEPT !.pc = "threw", !.pending = <<>>]
    ELSE [f EXCEPT !.result  = step.result,
                   !.pending = step.parts \o rest,
                   !.pc      = IF step.parts \o rest = <<>> THEN "done"
                               ELSE "parts"]

\* lines 1044-1109 up to the first call of parseMimePart
ParseEml ==
    /\ emlCall.pc = "call"
    /\ emlCall' = Continue(emlCall, ParseEmlStep(emlCall.content), <<>>)
    /\ EmlFrame

\* lines 835-903: the next call of parseMimePart, depth first
ParseMimePart ==
    /\ emlCall.pc = "parts"
    /\ emlCall' = Continue(emlCall,
                           MimePartStep(Head(emlCall.pending), emlCall.result),
                           Tail(emlCall.pending))
    /\ EmlFrame

EmlNext == ParseEml \/ ParseMimePart

\* parseEml applied to every document of EmlInputs
SpecEml == EmlCallInit /\ [][EmlNext]_vars

-----------------------------------------------------------------------------
(* Properties of parseEml                                                   *)

\* the text holds a blank line: a line break right after a line break
HasBlankLine(text) == Includes(text, "\n\n") \/ Includes(text, "\n\r\n")

\* the headers of an entity that has a blank line
HeadersOf(text) == parseHeaders(HeaderTextOf(text))

\* C1: parseEml never raises: no call ends with an exception crossing the
\* parser boundary, whatever the headers, the multipart structure and the
\* parameter values of the document are.
C1_NeverRaises == emlCall.pc # "threw"

\* the headers make the part a leaf: its content type is no multipart/*
IsLeafHeaders(headers) == ~StartsWithAt(getContentType(headers), "multipart/", 1)

\* the disposition type of a Content-Disposition value
DispositionType(disposition) ==
    ToLowerCase(Trim(SubSeq(disposition, 1, SpanNot(disposition, {";"}, 1) - 1)))

\* the headers declare a filename, or the disposition attachment, or a
\* content type that is neither text/* nor multipart/*
DeclaresAttachment(headers) ==
    \/ FilenameOf(Get(headers, "content-disposition")) # ""
    \/ ParamOf(Get(headers, "content-type"), "name") # ""
    \/ DispositionType(Get(headers, "content-disposition")) = "attachment"
    \/ ~StartsWithAt(getContentType(headers), "text/", 1)
          /\ ~StartsWithAt(getContentType(headers), "multipart/", 1)

\* the step appends exactly one attachment iff the headers declare one
AppendsIff(headers, before, after) ==
    IsLeafHeaders(headers)
        => /\ DeclaresAttachment(headers) <=> Len(after) = Len(before) + 1
           /\ ~DeclaresAttachment(headers) <=> after = before

\* C2: every leaf part reached by the multipart walk is appended to
\* attachments if and only if it declares a filename, or its disposition is
\* attachment, or its content type is neither text/* nor multipart/*; stated
\* for the calls of parseMimePart that return.
C2_AttachmentIff ==
    [][(/\ emlCall.pc = "parts"
        /\ emlCall'.pc # "threw"
        /\ HasBlankLine(Head(emlCall.pending)))
         => AppendsIff(HeadersOf(Head(emlCall.pending)),
                       emlCall.result.attachments,
                       emlCall'.result.attachments)]_vars

RECURSIVE LeavesOf(_, _)
\* the children of a multipart entity with the headers, or the entity itself
LeavesUnder(part, headers, withLast) ==
    IF IsLeafHeaders(headers) THEN <<part>>
    ELSE Flatten([k \in 1..Len(PartsOf(BodyTextOf(part),
                                       extractBoundary(Get(headers, "content-type")),
                                       withLast)) |->
                    LeavesOf(PartsOf(BodyTextOf(part),
                                     extractBoundary(Get(headers, "content-type")),
                                     withLast)[k], FALSE)])

\* the leaf parts of an entity in depth-first source order
LeavesOf(part, withLast) ==
    IF ~HasBlankLine(part) THEN <<>>
    ELSE LeavesUnder(part, HeadersOf(part), withLast)

\* the leaf parts of a multipart document (none for another document)
LeafPartsOf(content) ==
    IF HasBlankLine(content) /\ ~IsLeafHeaders(HeadersOf(content))
    THEN LeavesOf(content, TRUE) ELSE <<>>

\* the decoded body of a leaf part with the headers
DecodedBody(part, headers) == decodeContent(BodyTextOf(part), getEncoding(headers))

\* the field equals the decoded body of the first part of the type among
\* the leaves, when there is one
IsFirstBodyOf(field, leaves, type) ==
    LET typed == {k \in 1..Len(leaves) :
                     getContentType(HeadersOf(leaves[k])) = type}
    IN  typed # {}
          => field = DecodedBody(leaves[FirstOf(typed)],
                                 HeadersOf(leaves[FirstOf(typed)]))

\* both body fields are those of the first parts among the leaves
FirstPartsWin(result, leaves) ==
    /\ IsFirstBodyOf(result.textBody, leaves, "text/plain")
    /\ IsFirstBodyOf(result.htmlBody, leaves, "text/html")

\* C3: after parseEml on a multipart document, textBody is the decoded body
\* of the first text/plain part in depth-first source order and htmlBody that
\* of the first text/html part, whatever the first part decodes to.
C3_FirstTextPartsWin ==
    emlCall.pc = "done"
        => FirstPartsWin(emlCall.result, LeafPartsOf(emlCall.content))

\* the parts that are an attachment by their content type and carry a
\* well-formed filename, or none
PlainAttachmentKinds == {"pdf", "image"}

\* the multipart/mixed documents of one closed multipart/alternative (a
\* text/plain and a text/html part) and one attachment part, in either order
NestedExampleDocs ==
    {MixedDoc(kinds, eol, TRUE) :
        kinds \in {<<"alternative", att>> : att \in PlainAttachmentKinds}
                    \cup {<<att, "alternative">> : att \in PlainAttachmentKinds},
        eol \in Eols}

\* C4: for a multipart/mixed document of one nested multipart/alternative
\* (text/plain and text/html, closed) and one attachment part, parseEml
\* yields the text/plain body, the text/html body and exactly one attachment.
C4_NestedAlternativeAndAttachment ==
    (emlCall.content \in NestedExampleDocs /\ emlCall.pc # "call")
        => /\ emlCall.pc # "threw"
           /\ emlCall.pc = "done"
                => /\ emlCall.result.textBody = PlainBody
                   /\ emlCall.result.htmlBody = HtmlBody
                   /\ Len(emlCall.result.attachments) = 1

\* parseEml has returned for the example with the PDF attachment last
C4_Witness ==
    /\ emlCall.pc = "done"
    /\ emlCall.content = MixedDoc(<<"alternative", "pdf">>, "\r\n", TRUE)
    /\ emlCall.result.textBody = "Hello"
    /\ emlCall.result.htmlBody = "<b>Hi</b>"
    /\ Len(emlCall.result.attachments) = 1
    /\ emlCall.result.attachments[1].filename = "a b.pdf"
    /\ emlCall.result.attachments[1].content = <<37, 80, 68, 70>>

\* C5: for every input without a blank line between headers and body,
\* parseEml returns the all-default structure and raises nothing.
C5_NoSeparatorGivesDefaults ==
    (~HasBlankLine(emlCall.content) /\ emlCall.pc # "call")
        => emlCall.pc = "done" /\ emlCall.result = DefaultResult

\* parseEml has returned for header lines that no blank line follows
C5_Witness ==
    /\ emlCall.pc = "done"
    /\ ~HasBlankLine(emlCall.content)
    /\ Includes(emlCall.content, "Subject: ")
    /\ Includes(emlCall.content, "Date: Mon, 15 Jan 2024")
    /\ emlCall.result.subject = ""
    /\ emlCall.result.date = Null

\* the document has a Date header whose value Date.parse does not understand
HasUnparseableDate(content) ==
    /\ HasBlankLine(content)
    /\ Get(HeadersOf(content), "date") # ""
    /\ Get(HeadersOf(content), "date") \notin DOMAIN ParseableDates

\* C6: when the Date header is present but is no parseable date string, the
\* date of the ParsedEmail parseEml returns is null, not an invalid
\* timestamp object.
C6_UnparseableDateIsNull ==
    (emlCall.pc = "done" /\ HasUnparseableDate(emlCall.content))
        => emlCall.result.date = Null

-----------------------------------------------------------------------------
(* The regular expressions of htmlToMarkdown                                *)
(*                                                                         *)
(* Every expression of lines 966-1037 is a sequence of atoms: a literal, an *)
(* optional literal (x?), or a repetition of a character class, greedy or   *)
(* lazy, that may be a capture group.  Matching backtracks as the engine    *)
(* does: an atom gives back (greedy) or takes (lazy) characters until the   *)
(* atoms after it match.                                                    *)

\* the literal s; with the flag i the expressions write it in lower case
Lit(s) == [t |-> "lit", s |-> s, neg |-> FALSE, chars |-> {}, min |-> 0,
           lazy |-> FALSE, cap |-> FALSE]

\* the optional literal s?
Opt(s) == [t |-> "opt", s |-> s, neg |-> FALSE, chars |-> {}, min |-> 0,
           lazy |-> FALSE, cap |-> FALSE]

\* at least min characters of the class chars, or of its complement when neg
Rep(neg, chars, min, lazy, cap) ==
    [t |-> "rep", s |-> "", neg |-> neg, chars |-> chars, min |-> min,
     lazy |-> lazy, cap |-> cap]

\* the class \s
WhiteSpace == {" ", "\t", "\n", "\r", "\f"}

\* the class \d
Digits == {"0", "1", "2", "3", "4", "5", "6", "7", "8", "9"}

\* the characters '.' does not match without the flag s
LineTerminators == {"\n", "\r"}

\* [^>]*, [^>]+, ([^"]*), (.*?) without and with the flag s, [\s\S]*?
NotGtStar == Rep(TRUE, {">"}, 0, FALSE, FALSE)
NotGtPlus == Rep(TRUE, {">"}, 1, FALSE, FALSE)
QuotedGroup == Rep(TRUE, {"\""}, 0, FALSE, TRUE)
LazyGroup == Rep(TRUE, LineTerminators, 0, TRUE, TRUE)
LazyGroupS == Rep(TRUE, {}, 0, TRUE, TRUE)
LazyAny == Rep(TRUE, {}, 0, TRUE, FALSE)

\* the literal stands at position i of s
LitAt(s, lit, i, ci) ==
    /\ i + Len(lit) - 1 <= Len(s)
    /\ IF ci THEN ToLowerCase(SubSeq(s, i, i + Len(lit) - 1)) = lit
       ELSE SubSeq(s, i, i + Len(lit) - 1) = lit

\* the number of characters of the atom's class that stand at position i
RunLen(s, atom, i) ==
    IF atom.neg THEN SpanNot(s, atom.chars, i) - i
    ELSE SpanIn(s, atom.chars, i) - i

NoMatch == [ok |-> FALSE, lens |-> <<>>]

\* the match of the atoms behind one that took len characters
Taking(len, rest) ==
    IF rest.ok THEN [ok |-> TRUE, lens |-> <<len>> \o rest.lens] ELSE NoMatch

\* the first of the matches in the engine's order: of a greedy atom the
\* longest, of a lazy one the shortest
Preferred(lazy, min, tails) ==
    LET oks == {len \in DOMAIN tails : tails[len].ok}
    IN  IF oks = {} THEN NoMatch
        ELSE IF lazy THEN Taking(min + FirstOf({len - min + 1 : len \in oks}) - 1,
                                 tails[min + FirstOf({len - min + 1 : len \in oks}) - 1])
        ELSE Taking(min + LastOf({len - min + 1 : len \in oks}) - 1,
                    tails[min + LastOf({len - min + 1 : len \in oks}) - 1])

\* the second match when the first is none
OrElse(first, second) == IF first.ok THEN first ELSE second

RECURSIVE MatchFrom(_, _, _, _, _)
\* the match of the atoms re[k..] at position i of s: the characters every
\* atom takes
MatchFrom(re, k, s, i, ci) ==
    IF k > Len(re) THEN [ok |-> TRUE, lens |-> <<>>]
    ELSE IF re[k].t = "lit"
    THEN IF LitAt(s, re[k].s, i, ci)
         THEN Taking(Len(re[k].s), MatchFrom(re, k + 1, s, i + Len(re[k].s), ci))
         ELSE NoMatch
    ELSE IF re[k].t = "opt"
    THEN OrElse(IF LitAt(s, re[k].s, i, ci)
                THEN Taking(Len(re[k].s),
                            MatchFrom(re, k + 1, s, i + Len(re[k].s), ci))
                ELSE NoMatch,
                Taking(0, MatchFrom(re, k + 1, s, i, ci)))
    ELSE Preferred(re[k].lazy, re[k].min,
                   [len \in re[k].min..RunLen(s, re[k], i) |->
                       MatchFrom(re, k + 1, s, i + len, ci)])

RECURSIVE SumTo(_, _)
\* lens[1] + ... + lens[k]
SumTo(lens, k) == IF k = 0 THEN 0 ELSE lens[k] + SumTo(lens, k - 1)

\* the text of the n-th capture group of a match at position i
Group(re, s, i, lens, n) ==
    LET caps == {k \in 1..Len(re) : re[k].cap}
        k    == CHOOSE c \in caps : Cardinality({b \in caps : b <= c}) = n
    IN  SubSeq(s, i + SumTo(lens, k - 1), i + SumTo(lens, k) - 1)

-----------------------------------------------------------------------------
(* htmlToMarkdown                                                           *)

\* TLA+ strings cannot hold the grave accent of lines 1011-1012; the model
\* writes it as a tilde, which no input holds
Backtick == "~"

\* one call of replace: the expression, its flag i, and the replacement: a
\* text (fn "text": pre), a text around the first group (fn "wrap": pre $1
\* post), or the callback fn
Rule(re, ci, fn, pre, post) ==
    [re |-> re, ci |-> ci, fn |-> fn, pre |-> pre, post |-> post]

\* /<tag[^>]*>(.*?)<\/tag>/gi replaced by pre $1 post
Element(tag, pre, post) ==
    Rule(<<Lit("<" \o tag), NotGtStar, Lit(">"), LazyGroup,
           Lit("</" \o tag \o ">")>>, TRUE, "wrap", pre, post)

\* /<tag[^>]*>/gi replaced by text
OpenTag(tag, text) ==
    Rule(<<Lit("<" \o tag), NotGtStar, Lit(">")>>, TRUE, "text", text, "")

\* /<\/tag>/gi replaced by text
CloseTag(tag, text) == Rule(<<Lit("</" \o tag \o ">")>>, TRUE, "text", text, "")

\* /<\/?tag[^>]*>/gi replaced by text
AnyTag(tag, text) ==
    Rule(<<Lit("<"), Opt("/"), Lit(tag), NotGtStar, Lit(">")>>, TRUE, "text",
         text, "")

\* /<tag[^>]*>[\s\S]*?<\/tag>/gi replaced by ''
Removed(tag) ==
    Rule(<<Lit("<" \o tag), NotGtStar, Lit(">"), LazyAny,
           Lit("</" \o tag \o ">")>>, TRUE, "text", "", "")

\* /entity/g replaced by text
EntityRule(entity, text) == Rule(<<Lit(entity)>>, FALSE, "text", text, "")

\* /<br\s*\/?>/gi
BreakRule ==
    Rule(<<Lit("<br"), Rep(FALSE, WhiteSpace, 0, FALSE, FALSE), Opt("/"),
           Lit(">")>>, TRUE, "text", "\n", "")

\* line 981
AnchorRule ==
    Rule(<<Lit("<a"), NotGtPlus, Lit("href=\""), QuotedGroup, Lit("\""),
           NotGtStar, Lit(">"), LazyGroup, Lit("</a>")>>, TRUE, "anchor", "", "")

\* line 986
ImageAltRule ==
    Rule(<<Lit("<img"), NotGtPlus, Lit("src=\""), QuotedGroup, Lit("\""),
           NotGtStar, Lit("alt=\""), QuotedGroup, Lit("\""), NotGtStar,
           Opt("/"), Lit(">")>>, TRUE, "imgAlt", "", "")

\* line 990
ImageRule ==
    Rule(<<Lit("<img"), NotGtPlus, Lit("src=\""), QuotedGroup, Lit("\""),
           NotGtStar, Opt("/"), Lit(">")>>, TRUE, "img", "", "")

\* lines 1007 and 1012: the flag s lets the group span lines
BlockquoteRule ==
    Rule(<<Lit("<blockquote"), NotGtStar, Lit(">"), LazyGroupS,
           Lit("</blockquote>")>>, TRUE, "blockquote", "", "")

PreRule ==
    Rule(<<Lit("<pre"), NotGtStar, Lit(">"), LazyGroupS, Lit("</pre>")>>, TRUE,
         "wrap", Backtick \o Backtick \o Backtick \o "\n",
         "\n" \o Backtick \o Backtick \o Backtick \o "\n\n")

\* lines 1034-1035
DecimalRule ==
    Rule(<<Lit("&#"), Rep(FALSE, Digits, 1, FALSE, TRUE), Lit(";")>>, FALSE,
         "dec", "", "")

HexRule ==
    Rule(<<Lit("&#x"), Rep(FALSE, HexDigits, 1, FALSE, TRUE), Lit(";")>>, FALSE,
         "hex", "", "")

\* lines 966-1037: the chain of replace calls, in order
MarkdownRules ==
    <<Removed("script"), Removed("style"),
      Element("h1", "# ", "\n\n"), Element("h2", "## ", "\n\n"),
      Element("h3", "### ", "\n\n"), Element("h4", "#### ", "\n\n"),
      Element("h5", "##### ", "\n\n"), Element("h6", "###### ", "\n\n"),
      Element("strong", "**", "**"), Element("b", "**", "**"),
      Element("em", "*", "*"), Element("i", "*", "*"),
      AnchorRule, ImageAltRule, ImageRule,
      OpenTag("ul", "\n"), CloseTag("ul", "\n"),
      OpenTag("ol", "\n"), CloseTag("ol", "\n"),
      Element("li", "- ", "\n"),
      BreakRule, CloseTag("p", "\n\n"), OpenTag("p", ""),
      CloseTag("div", "\n"), OpenTag("div", ""),
      BlockquoteRule,
      Element("code", Backtick, Backtick), PreRule,
      Rule(<<Lit("<hr"), NotGtStar, Opt("/"), Lit(">")>>, TRUE, "text",
           "\n---\n\n", ""),
      CloseTag("tr", "|\n"), CloseTag("th", " | "), CloseTag("td", " | "),
      OpenTag("tr", "|"), OpenTag("th", ""), OpenTag("td", ""),
      AnyTag("table", "\n"), AnyTag("thead", ""), AnyTag("tbody", ""),
      Rule(<<Lit("<"), NotGtPlus, Lit(">")>>, FALSE, "text", "", ""),
      EntityRule("&nbsp;", " "), EntityRule("&amp;", "&"), EntityRule("&lt;", "<"),
      EntityRule("&gt;", ">"), EntityRule("&quot;", "\""), EntityRule("&apos;", "'"),
      DecimalRule, HexRule,
      Rule(<<Rep(FALSE, {"\n"}, 3, FALSE, FALSE)>>, FALSE, "text", "\n\n", "")>>

RECURSIVE ParseInt(_, _)
\* parseInt(digits, base) as String.fromCharCode takes it: modulo 2^16
ParseInt(digits, base) ==
    IF digits = "" THEN 0
    ELSE (ParseInt(SubSeq(digits, 1, Len(digits) - 1), base) * base
              + HexValue(At(digits, Len(digits)))) % 65536

\* lines 981-984: the callback of the anchor expression
AnchorReplacement(url, text) ==
    IF sanitizeUrl(url) # "" THEN "[" \o text \o "](" \o sanitizeUrl(url) \o ")"
    ELSE text

\* lines 986-989
ImageAltReplacement(url, alt) ==
    IF sanitizeUrl(url) # "" THEN "![" \o alt \o "](" \o sanitizeUrl(url) \o ")"
    ELSE alt

\* lines 990-993
ImageReplacement(url) ==
    IF sanitizeUrl(url) # "" THEN "![](" \o sanitizeUrl(url) \o ")" ELSE ""

\* lines 1007-1009: every line of the content behind '> '
BlockquoteReplacement(content) ==
    "> " \o ReplaceChar(content, "\n", "\n> ") \o "\n\n"

\* what replace puts in the place of the match of lens at position i of s
Replacement(rule, s, i, lens) ==
    CASE rule.fn = "text" -> rule.pre
      [] rule.fn = "wrap" ->
           rule.pre \o Group(rule.re, s, i, lens, 1) \o rule.post
      [] rule.fn = "anchor" ->
           AnchorReplacement(Group(rule.re, s, i, lens, 1),
                             Group(rule.re, s, i, lens, 2))
      [] rule.fn = "imgAlt" ->
           ImageAltReplacement(Group(rule.re, s, i, lens, 1),
                               Group(rule.re, s, i, lens, 2))
      [] rule.fn = "img" -> ImageReplacement(Group(rule.re, s, i, lens, 1))
      [] rule.fn = "blockquote" ->
           BlockquoteReplacement(Group(rule.re, s, i, lens, 1))
      [] rule.fn = "dec" -> CharOfCode(ParseInt(Group(rule.re, s, i, lens, 1), 10))
      [] rule.fn = "hex" -> CharOfCode(ParseInt(Group(rule.re, s, i, lens, 1), 16))

RECURSIVE ReplaceFrom(_, _, _)
\* the text behind a match of lens at position i, replaced
ReplaceBehind(rule, s, i, lens) ==
    Replacement(rule, s, i, lens)
        \o ReplaceFrom(rule, s, i + SumTo(lens, Len(lens)))

\* the replaced text from position p, given the match at every position
ReplaceAmong(rule, s, p, tries) ==
    LET hits == {i \in DOMAIN tries : tries[i].ok}
    IN  IF hits = {} THEN From(s, p)
        ELSE SubSeq(s, p, p + FirstOf({i - p + 1 : i \in hits}) - 2)
                 \o ReplaceBehind(rule, s, p + FirstOf({i - p + 1 : i \in hits}) - 1,
                                  tries[p + FirstOf({i - p + 1 : i \in hits}) - 1].lens)

\* s.replace(/re/g, replacement) from position p of s: the leftmost match is
\* replaced, and the search goes on behind it
ReplaceFrom(rule, s, p) ==
    ReplaceAmong(rule, s, p,
                 [i \in p..Len(s) |-> MatchFrom(rule.re, 1, s, i, rule.ci)])

\* s.replace(/re/g, replacement)
ReplaceAll(rule, s) == ReplaceFrom(rule, s, 1)

\* the fragments the HTML texts are made of
HtmlFrags ==
    {"<b>Hi</b>", " ", "\n", "<i>it</i>", "<p>a &amp; b</p>",
     "<a href=\"javascript:alert(1)\">click</a>",
     "<A HREF=\"https://ok.io\">site</A>",
     "<a href='data:x'>q</a>",
     "<img src=\"javascript:x\" alt=\"pic\">",
     "<img src=\"data:x\">",
     "<img alt=\"pic\" src=\"javascript:x\">",
     "<img src=\"cid:i1\" alt=\"logo\"/>"}

\* the longest HTML text, in fragments
MaxHtmlFrags == 2

\* the fragment of the specification
HtmlExample == "<b>Hi</b> <a href=\"javascript:alert(1)\">click</a>"

HtmlInputs == Concats(HtmlFrags, MaxHtmlFrags) \cup {HtmlExample}

HtmlCallInit ==
    /\ PluginOff
    /\ hdrCall = Idle
    /\ addrCall = Idle
    /\ urlCall = Idle
    /\ qpCall = Idle
    /\ emlCall = Idle
    /\ \E html \in HtmlInputs :
          htmlCall = [pc |-> "replace", html |-> html, text |-> html, k |-> 1,
                      ret |-> ""]

\* lines 966-1037: the next replace of the chain
Replace ==
    /\ htmlCall.pc = "replace"
    /\ htmlCall.k <= Len(MarkdownRules)
    /\ htmlCall' = [htmlCall EXCEPT
                      !.text = ReplaceAll(MarkdownRules[htmlCall.k], @),
                      !.k    = @ + 1]
    /\ HtmlFrame

\* line 1038: trim, and the return
TrimAndReturn ==
    /\ htmlCall.pc = "replace"
    /\ htmlCall.k > Len(MarkdownRules)
    /\ htmlCall' = [htmlCall EXCEPT !.ret = Trim(htmlCall.text), !.pc = "done"]
    /\ HtmlFrame

HtmlNext == Replace \/ TrimAndReturn

\* htmlToMarkdown applied to every text of HtmlInputs
SpecHtml == HtmlCallInit /\ [][HtmlNext]_vars

-----------------------------------------------------------------------------
(* Properties of htmlToMarkdown                                             *)

\* the tag that opens at position i of html, up to its '>'
TagAt(html, i) == SubSeq(html, i, SpanNot(html, {">"}, i))

\* the value of the double-quoted attribute of the tag: has is FALSE when the
\* tag has no such attribute
AttributeOf(tag, name) ==
    LET a == IndexOfFrom(ToLowerCase(tag), " " \o name \o "=\"", 1)
        v == a + Len(name) + 3
    IN  IF a = 0 THEN [has |-> FALSE, value |-> ""]
        ELSE [has |-> TRUE,
              value |-> SubSeq(tag, v, SpanNot(tag, {"\""}, v) - 1)]

\* the positions of html where an element of the name opens
TagsOf(html, name) ==
    {i \in 1..Len(html) : LitAt(html, "<" \o name \o " ", i, TRUE)}

\* the visible text of the anchor that opens at position i: the text between
\* its tag and the next </a>
AnchorText(html, i) ==
    LET from == SpanNot(html, {">"}, i) + 1
        to   == IndexOfFrom(ToLowerCase(html), "</a>", from)
    IN  IF to = 0 THEN From(html, from) ELSE SubSeq(html, from, to - 1)

\* the Markdown text has a link or an image with the target
HasTarget(markdown, url) == Includes(markdown, "](" \o url \o ")")

\* the anchor at position i of html, when its href is rejected, left its
\* visible text in the Markdown text and no link to the href
AnchorKeepsText(html, i, markdown) ==
    LET href == AttributeOf(TagAt(html, i), "href")
    IN  (href.has /\ sanitizeUrl(href.value) = "")
            => /\ Includes(markdown, AnchorText(html, i))
               /\ ~HasTarget(markdown, href.value)

\* the image at position i of html, when its src is rejected, left its alt
\* text (if it has one) in the Markdown text and no image of the src
ImageKeepsAlt(html, i, markdown) ==
    LET src == AttributeOf(TagAt(html, i), "src")
        alt == AttributeOf(TagAt(html, i), "alt")
    IN  (src.has /\ sanitizeUrl(src.value) = "")
            => /\ (alt.has /\ alt.value # "") => Includes(markdown, alt.value)
               /\ ~HasTarget(markdown, src.value)

\* C9: htmlToMarkdown replaces every anchor whose href the sanitizer rejects
\* with the anchor's visible text, and every image whose src it rejects with
\* its alt text (or nothing when it has none); the rejected URL is no link or
\* image target of the output; the fragment of the specification converts
\* to **Hi** click.
C9_UnsafeLinksKeepTextOnly ==
    htmlCall.pc = "done"
        => /\ \A i \in TagsOf(htmlCall.html, "a") :
                  AnchorKeepsText(htmlCall.html, i, htmlCall.ret)
           /\ \A i \in TagsOf(htmlCall.html, "img") :
                  ImageKeepsAlt(htmlCall.html, i, htmlCall.ret)
           /\ htmlCall.html = HtmlExample => htmlCall.ret = "**Hi** click"

-----------------------------------------------------------------------------
(* parseHeaders, one loop iteration at a time                              *)

\* the most header fields of a header block
MaxHeaderFields == 2

\* field names as they are written: mixed case, and blanks before the colon
FieldNames == {"Subject", "SUBJECT", "subject ", "To"}

\* field bodies as they are written, in the pieces a folding writer puts
\* on lines of their own; one body holds a colon
FieldBodies == {<<"a">>, <<"b:c">>, <<"a", "b">>, <<"", "c">>}

\* the white space a continuation line begins with
Folds == {" ", "\t", " \t "}

Fields == [name : FieldNames, pieces : FieldBodies]

RECURSIVE Folded(_, _)
\* the pieces of a field body, each behind the first on a continuation line
Folded(pieces, fold) ==
    IF Len(pieces) = 1 THEN pieces[1]
    ELSE pieces[1] \o fold \o Folded(Tail(pieces), fold)

RECURSIVE HeaderBlock(_, _, _)
\* the header block that holds the fields, one after the other
HeaderBlock(fields, eol, white) ==
    IF fields = <<>> THEN ""
    ELSE Head(fields).name \o ": " \o Folded(Head(fields).pieces, eol \o white)
             \o (IF Len(fields) = 1 THEN ""
                 ELSE eol \o HeaderBlock(Tail(fields), eol, white))

\* the call of parseHeaders on the header block written from fields
HdrCallInit ==
    /\ PluginOff
    /\ addrCall = Idle
    /\ urlCall = Idle
    /\ qpCall = Idle
    /\ emlCall = Idle
    /\ htmlCall = Idle
    /\ \E fields \in SeqsUpTo(Fields, MaxHeaderFields), eol \in Eols,
          white \in Folds :
          hdrCall = [pc         |-> "unfold",
                     written    |-> fields,
                     headerText |-> HeaderBlock(fields, eol, white),
                     lines      |-> <<>>,
                     n          |-> 1,
                     headers    |-> NoHeaders]

\* lines 730-735: the continuation lines are unfolded, the text is split
Unfold ==
    /\ hdrCall.pc = "unfold"
    /\ hdrCall' = [hdrCall EXCEPT
                      !.pc    = "lines",
                      !.lines = SplitLinesFrom(
                                    UnfoldFrom(hdrCall.headerText, 1), 1)]
    /\ HdrFrame

\* lines 737-744: one iteration of the loop over the lines
ReadHeaderLine ==
    /\ hdrCall.pc = "lines"
    /\ hdrCall.n <= Len(hdrCall.lines)
    /\ hdrCall' = [hdrCall EXCEPT
                      !.n       = @ + 1,
                      !.headers = HeadersOfLines(<<hdrCall.lines[hdrCall.n]>>,
                                                 1, @)]
    /\ HdrFrame

\* line 746: return headers
ReturnHeaders ==
    /\ hdrCall.pc = "lines"
    /\ hdrCall.n > Len(hdrCall.lines)
    /\ hdrCall' = [hdrCall EXCEPT !.pc = "done"]
    /\ HdrFrame

HdrNext == Unfold \/ ReadHeaderLine \/ ReturnHeaders

\* parseHeaders applied to every header block of at most MaxHeaderFields
SpecHdr == HdrCallInit /\ [][HdrNext]_vars

\* the name a field is looked up by
KeyOf(field) == ToLowerCase(Trim(field.name))

\* the body of a field, its lines joined by one space
BodyOf(field) ==
    Trim(Folded(field.pieces, " "))

\* the fields of one name, by their position in the block
FieldsNamed(fields, key) == {i \in 1..Len(fields) : KeyOf(fields[i]) = key}

\* C11: parseHeaders returns a map from the lower-cased, trimmed field names;
\* the continuation lines of a field are joined to it by one space each, a
\* field is split at its first colon, and of the fields of one name the last
\* gives the value.
C11_HeadersByLowerCaseName ==
    hdrCall.pc = "done"
        => LET fields == hdrCall.written
           IN  /\ DOMAIN hdrCall.headers
                     = {KeyOf(fields[i]) : i \in 1..Len(fields)}
               /\ \A key \in DOMAIN hdrCall.headers :
                     hdrCall.headers[key]
                         = BodyOf(fields[LastOf(FieldsNamed(fields, key))])

\* a block whose two fields differ in the case of one name and in their
\* bodies, the second folded and holding a colon, has been parsed
C11_Witness ==
    /\ hdrCall.pc = "done"
    /\ Len(hdrCall.written) = 2
    /\ hdrCall.written[1].name = "SUBJECT"
    /\ hdrCall.written[2].name = "subject "
    /\ hdrCall.written[1].pieces = <<"a", "b">>
    /\ hdrCall.written[2].pieces = <<"b:c">>
    /\ hdrCall.headers = [k \in {"subject"} |-> "b:c"]

-----------------------------------------------------------------------------
(* The segments of a multipart body that are parsed                        *)

\* a segment that shows in the result when it is parsed: an attachment part
\* of the file name label
Segment(label, eol) ==
    Entity(<<"Content-Type: application/pdf",
             "Content-Disposition: attachment; filename=\"" \o label \o "\"">>,
           "x", eol)

\* how a multipart body ends: behind its last part, behind the closing
\* delimiter, or with a segment behind the closing delimiter
Endings == {"open", "closed", "epilogue"}

\* a multipart body: a segment before the first delimiter when pre, the
\* parts, and the ending; the segments before and behind are labelled
\* label-pre and label-epi
SegmentedBody(label, parts, boundary, eol, pre, ending) ==
    (IF pre THEN Segment(label \o "pre", eol) \o eol ELSE "")
        \o MultipartBody(parts, boundary, eol, ending # "open")
        \o (IF ending = "epilogue" THEN Segment(label \o "epi", eol) \o eol
            ELSE "")

PartLabels == <<"p1", "p2", "p3", "p4">>

\* the nested multipart part label of two parts, label-a and label-b
NestedPart(label, eol, pre, ending) ==
    Entity(<<"Content-Type: multipart/mixed; boundary=inner">>,
           SegmentedBody(label,
                         <<Segment(label \o "a", eol), Segment(label \o "b", eol)>>,
                         "inner", eol, pre, ending),
           eol)

\* the shapes of the documents: the kinds of the top-level parts, the
\* preamble and ending of the top-level body and of every nested body
Shapes ==
    [kinds    : SeqsUpTo({"leaf", "nested"}, MaxParts) \ {<<>>},
     pre      : BOOLEAN,
     ending   : Endings,
     inPre    : BOOLEAN,
     inEnding : Endings,
     eol      : Eols]

\* the document of a shape
SegmentedDoc(shape) ==
    Entity(<<"Subject: segments",
             "Content-Type: multipart/mixed; boundary=\"outer\"">>,
           SegmentedBody("top",
               [k \in 1..Len(shape.kinds) |->
                   IF shape.kinds[k] = "leaf"
                   THEN Segment(PartLabels[k], shape.eol)
                   ELSE NestedPart(PartLabels[k], shape.eol, shape.inPre,
                                   shape.inEnding)],
               "outer", shape.eol, shape.pre, shape.ending),
           shape.eol)

\* parseEml called on the document of a shape
SegmentsCallInit ==
    /\ PluginOff
    /\ addrCall = Idle
    /\ urlCall = Idle
    /\ qpCall = Idle
    /\ htmlCall = Idle
    /\ hdrCall = Idle
    /\ \E shape \in Shapes :
          emlCall = [pc |-> "call", content |-> SegmentedDoc(shape),
                     shape |-> shape,
                     result |-> DefaultResult, pending |-> <<>>]

\* parseEml applied to the document of every shape
SpecSegments == SegmentsCallInit /\ [][EmlNext]_vars

\* the positions, among n parts of a body of the ending, of the parts that
\* are parsed when the segment behind the last delimiter is kept or not
ParsedParts(n, ending, keepsLast) ==
    IF ending = "open" /\ ~keepsLast THEN 1..(n - 1) ELSE 1..n

\* the labels of the segments of a body that are parsed, the preamble
\* never, the segment behind the closing delimiter when the last is kept
ParsedOf(label, parts, ending, keepsLast) ==
    {parts[k] : k \in ParsedParts(Len(parts), ending, keepsLast)}
        \cup (IF ending = "epilogue" /\ keepsLast THEN {label \o "epi"} ELSE {})

\* the file names in the result of a document of the shape, when the
\* top-level call and the nested calls keep the last segment or not
ParsedSegments(shape, topKeepsLast, nestedKeepsLast) ==
    LET top == ParsedOf("top",
                        [k \in 1..Len(shape.kinds) |-> PartLabels[k]],
                        shape.ending, topKeepsLast)
        IsNested(label) ==
            \E k \in 1..Len(shape.kinds) :
                PartLabels[k] = label /\ shape.kinds[k] = "nested"
    IN  {label \in top : ~IsNested(label)}
          \cup UNION {ParsedOf(label, <<label \o "a", label \o "b">>,
                               shape.inEnding, nestedKeepsLast) :
                         label \in {l \in top : IsNested(l)}}

\* the file names of the attachments of the result
AttachmentNames(result) ==
    {result.attachments[i].filename : i \in 1..Len(result.attachments)}

\* the result holds one attachment for each of the segments, and no other
HoldsSegments(result, labels) ==
    /\ AttachmentNames(result) = labels
    /\ Len(result.attachments) = Cardinality(labels)

-----------------------------------------------------------------------------
(* The vault: TFile objects, paths, and the operations of the Obsidian API *)

\* the index of the last '/' of a path, 0 when it has none
LastSlash(path) == LastOf({k \in 1..Len(path) : At(path, k) = "/"})

\* TFile.name: the path behind its last '/'
NameOf(path) == From(path, LastSlash(path) + 1)

\* TFile.parent.path: the folder of the file, "/" for the root of the vault
ParentPath(path) ==
    IF LastSlash(path) = 0 THEN "/" ELSE SubSeq(path, 1, LastSlash(path) - 1)

\* the index of the last '.' of a name, 0 when it has none
LastDot(name) == LastOf({k \in 1..Len(name) : At(name, k) = "."})

\* TFile.basename: the name without its extension
BaseName(path) ==
    LET name == NameOf(path)
    IN  IF LastDot(name) <= 1 THEN name ELSE SubSeq(name, 1, LastDot(name) - 1)

\* TFile.extension: the name behind its last '.'
Extension(path) ==
    LET name == NameOf(path)
    IN  IF LastDot(name) <= 1 THEN "" ELSE From(name, LastDot(name) + 1)

RECURSIVE PathSegments(_, _)
\* the non-empty segments of a path between its slashes, from position i
PathSegments(path, i) ==
    LET a == FirstOf({k \in i..Len(path) : At(path, k) # "/"})
        e == IF a = 0 THEN 0 ELSE SpanNot(path, {"/"}, a)
    IN  IF a = 0 THEN <<>>
        ELSE <<SubSeq(path, a, e - 1)>> \o PathSegments(path, e)

RECURSIVE JoinPath(_)
\* parts.join('/')
JoinPath(parts) ==
    IF parts = <<>> THEN ""
    ELSE IF Len(parts) = 1 THEN parts[1]
    ELSE parts[1] \o "/" \o JoinPath(Tail(parts))

\* normalizePath of the Obsidian API: repeated slashes become one, and the
\* slashes at both ends go
normalizePath(path) == JoinPath(PathSegments(path, 1))

\* a TFile object: its path, the data of the file, whether the file is in the
\* vault, what made it (the user, saveAttachments or the vault.create of
\* a note), and whether moveEmlToAttachments moved it
TFile(path, data, origin) ==
    [path |-> path, data |-> data, live |-> TRUE, origin |-> origin,
     moved |-> FALSE]

\* the TFile objects of the files that are in the vault
Live(vaultFiles) == {i \in 1..Len(vaultFiles) : vaultFiles[i].live}

\* vault.getAbstractFileByPath(path) is not null: a file or a folder of the
\* vault has the path
getAbstractFileByPath(vaultFiles, vaultFolders, path) ==
    \/ path \in vaultFolders
    \/ \E i \in Live(vaultFiles) : vaultFiles[i].path = path

\* the folder a new file of the path needs is in the vault
HasParent(vaultFolders, path) ==
    ParentPath(path) = "/" \/ ParentPath(path) \in vaultFolders

\* vault.create and vault.createBinary resolve: no file or folder has the
\* path, and its folder exists; they reject otherwise
CanCreate(vaultFiles, vaultFolders, path) ==
    /\ ~getAbstractFileByPath(vaultFiles, vaultFolders, path)
    /\ HasParent(vaultFolders, path)

\* fileManager.renameFile resolves: the file is in the vault and its new path
\* is free
CanRename(vaultFiles, vaultFolders, i, newPath) ==
    /\ vaultFiles[i].live
    /\ CanCreate(vaultFiles, vaultFolders, newPath)

\* the vault after vault.create or vault.createBinary
Created(vaultFiles, path, data, origin) ==
    Append(vaultFiles, TFile(path, data, origin))

\* the vault after renameFile: the TFile object itself takes the new path
Renamed(vaultFiles, i, newPath, byPlugin) ==
    [vaultFiles EXCEPT ![i].path = newPath, ![i].moved = @ \/ byPlugin]

\* the vault after vault.delete
Deleted(vaultFiles, i) == [vaultFiles EXCEPT ![i].live = FALSE]

-----------------------------------------------------------------------------
(* The plugin: settings, attachment folder, file names                     *)

\* lines 119-136
getAttachmentFolder(folderPath, sourcePath) ==
    IF folderPath = "" \/ folderPath = "/" THEN ""
    ELSE IF StartsWithAt(folderPath, "./", 1)
    THEN normalizePath(ParentPath(sourcePath) \o "/" \o From(folderPath, 3))
    ELSE folderPath

\* lines 141-157
isInAttachmentsFolder(folderPath, path) ==
    IF folderPath = "" \/ folderPath = "/" THEN FALSE
    ELSE IF StartsWithAt(folderPath, "./", 1)
    THEN \/ Includes(path, "/" \o From(folderPath, 3) \o "/")
         \/ StartsWithAt(path, From(folderPath, 3) \o "/", 1)
    ELSE \/ StartsWithAt(path, folderPath \o "/", 1)
         \/ StartsWithAt(path, folderPath, 1)

\* the characters of /[<>:"/\\|?*]/
UnsafeNameChars == {"<", ">", ":", "\"", "/", "\\", "|", "?", "*"}

\* lines 348-354
sanitizeFilename(filename) ==
    LET safe   == Join([k \in 1..Len(filename) |->
                          IF At(filename, k) \in UnsafeNameChars THEN "_"
                          ELSE At(filename, k)])
        spaced == ReplaceAll(Rule(<<Rep(FALSE, WhiteSpace, 1, FALSE, FALSE)>>,
                                  FALSE, "text", "_", ""), safe)
        single == ReplaceAll(Rule(<<Rep(FALSE, {"_"}, 1, FALSE, FALSE)>>,
                                  FALSE, "text", "_", ""), spaced)
    IN  SubSeq(single, 1, IF Len(single) < 200 THEN Len(single) ELSE 200)

\* line 203: file.path.replace(/\.eml$/i, '.md')
MdPath(path) ==
    IF Len(path) >= 4 /\ ToLowerCase(From(path, Len(path) - 3)) = ".eml"
    THEN SubSeq(path, 1, Len(path) - 4) \o ".md"
    ELSE path

\* line 50: oldPath.toLowerCase().endsWith('.eml')
WasEml(oldPath) ==
    Len(oldPath) >= 4 /\ ToLowerCase(From(oldPath, Len(oldPath) - 3)) = ".eml"

RECURSIVE ParseFrom(_)
\* lines 1044-1109 with the calls of parseMimePart: the frame when parseEml
\* returns or throws
ParseFrom(f) ==
    IF f.pc = "call"
    THEN ParseFrom(Continue(f, ParseEmlStep(f.content), <<>>))
    ELSE IF f.pc = "parts"
    THEN ParseFrom(Continue(f, MimePartStep(Head(f.pending), f.result),
                            Tail(f.pending)))
    ELSE f

\* parseEml(content): pc is "done" with the result, or "threw"
parseEml(content) ==
    ParseFrom([pc |-> "call", content |-> content, result |-> DefaultResult,
               pending |-> <<>>])

\* line 461, the title of the note; the lines generateMarkdown puts around
\* it are left out
generateMarkdown(email) ==
    "# " \o (IF email.subject # "" THEN email.subject ELSE "Untitled Email")

\* vault.read of a file createBinary wrote: the bytes as UTF-8 text
DataOfBuffer(content) == Utf8ToString(content)

-----------------------------------------------------------------------------
(* The plugin as a state machine                                           *)

\* the most files the user puts into the vault
MaxUserFiles == 1

\* the most calls of convertEmlFile
MaxCalls == 3

\* the most vault operations that fail for a reason outside the vault
MaxFailures == 1

\* line 21
MAX_ATTACHMENT_SIZE == 500 * 1024 * 1024

EmlHandlings == {"keep", "delete", "move-to-attachments"}

\* the settings of the attachment folder: the root of the vault, a folder
\* next to the file, a folder of the vault
AttachmentFolderPaths == {"/", "./att", "att"}

\* a message without attachment
PlainEmail ==
    Entity(<<"Subject: Hi", "Content-Type: text/plain">>, "Hello", "\n")

\* a message that has a message attached as a file of the extension eml
ForwardEmail ==
    Entity(<<"Subject: Fwd", "Content-Type: multipart/mixed; boundary=b">>,
           MultipartBody(
               <<Entity(<<"Content-Type: message/rfc822",
                          "Content-Disposition: attachment; filename=\"f w.eml\"">>,
                        "Subject: In\n\nBody", "\n")>>,
               "b", "\n", TRUE),
           "\n")

\* a message parseEml throws on
BrokenEmail ==
    Entity(<<"Content-Type: multipart/mixed; boundary=b">>,
           MultipartBody(<<LeafPart("pdfPercent", "\n")>>, "b", "\n", TRUE),
           "\n")

\* the files the user puts into the vault
UserDrops ==
    {[path |-> "a.eml", data |-> PlainEmail],
     [path |-> "a.eml", data |-> ForwardEmail],
     [path |-> "in/a.eml", data |-> ForwardEmail],
     [path |-> "a.eml", data |-> BrokenEmail],
     [path |-> "a.txt", data |-> PlainEmail]}

\* the path the user gives a file of the path when renaming it
UserRenameTargets(path) ==
    IF path = "a.txt" THEN {"a.eml"} ELSE {}

\* the plugin after onload, in a vault that holds the folder in
PluginInit ==
    /\ addrCall = Idle
    /\ urlCall = Idle
    /\ qpCall = Idle
    /\ emlCall = Idle
    /\ htmlCall = Idle
    /\ hdrCall = Idle
    /\ settings \in [autoConvert : BOOLEAN, emlHandling : EmlHandlings]
    /\ attachmentFolderPath \in AttachmentFolderPaths
    /\ files = <<>>
    /\ folders = {"in"}
    /\ processingFiles = {}
    /\ timers = <<>>
    /\ calls = <<>>
    /\ returned = Idle
    /\ started = 0
    /\ allCall = Idle
    /\ failures = 0

\* the frame of a call of convertEmlFile(file) at line 193: the caller, the
\* value of file.path, and the locals
Frame(file, origin, path) ==
    [pc |-> "enter", file |-> file, origin |-> origin, path |-> path,
     mdPath |-> MdPath(path), outcome |-> "", created |-> FALSE,
     attachmentFolder |-> "", attachments |-> <<>>, baseName |-> "", k |-> 0,
     parts |-> <<>>, j |-> 0, then |-> "", target |-> "", markdown |-> ""]

\* the frame of a call that has returned: the file, the caller, file.path
\* at line 193, how the call ended and whether it created the note
Returned(f, outcome) ==
    [Frame(f.file, f.origin, f.path) EXCEPT
        !.pc = "done", !.outcome = outcome, !.created = f.created]

\* the places where a call waits for a promise of the vault
Awaits == {"read", "mkdir", "save", "rename", "create", "delete"}

\* ExistingMd as it would be if convertEmlFile never looked for the note
ExistingMdNever(vaultFiles, vaultFolders, mdPath) == FALSE

\* lines 204-205: a file or folder has the path of the note
ExistingMd(vaultFiles, vaultFolders, mdPath) ==
    getAbstractFileByPath(vaultFiles, vaultFolders, mdPath)

\* lines 193-216: convertEmlFile from its call to its first await
Entered(f) ==
    IF f.path \in processingFiles THEN Returned(f, "busy")
    ELSE IF ExistingMd(files, folders, f.mdPath) THEN Returned(f, "exists")
    ELSE IF isInAttachmentsFolder(attachmentFolderPath, f.path)
    THEN Returned(f, "inAttachments")
    ELSE [f EXCEPT !.pc = "read"]

\* lines 33-42 and 47-56: the callbacks setTimeout holds after the watcher
\* of the event ran for the file; oldPath is "" for a create event
Watched(event, i, oldPath, vaultFiles) ==
    IF /\ settings.autoConvert
       /\ Extension(vaultFiles[i].path) = "eml"
       /\ ~(\/ vaultFiles[i].path \in processingFiles
            \/ isInAttachmentsFolder(attachmentFolderPath, vaultFiles[i].path)
            \/ event = "rename" /\ WasEml(oldPath))
    THEN Append(timers, [file |-> i, origin |-> event])
    ELSE timers

\* lines 307-311 and 262-264: the path of a name in the attachment folder
InFolder(folder, name) ==
    IF folder # "" THEN normalizePath(folder \o "/" \o name) ELSE name

\* lines 263-276: the name moveEmlToAttachments tries after counter names
\* were taken
NameTried(path, counter) ==
    IF counter = 0 THEN NameOf(path)
    ELSE BaseName(path) \o "_" \o ToString(counter) \o ".eml"

\* lines 262-276: the first path of the attachment folder that is free
UniquePath(vaultFiles, vaultFolders, folder, path) ==
    LET taken(c) == getAbstractFileByPath(vaultFiles, vaultFolders,
                                          InFolder(folder, NameTried(path, c)))
        most == Len(vaultFiles) + Cardinality(vaultFolders) + 1
    IN  InFolder(folder,
                 NameTried(path, CHOOSE c \in 0..most :
                                     ~taken(c) /\ \A b \in 0..(c - 1) : taken(b)))

\* the path ensureFolderExists is at in its loop: the first j parts
CurrentPath(f) == JoinPath(SubSeq(f.parts, 1, f.j))

\* lines 305-311: the path saveAttachments gives the attachment it is at
AttachmentPath(f) ==
    InFolder(f.attachmentFolder,
             f.baseName \o "_" \o f.attachments[f.k].safeName)

\* one synchronous stretch of convertEmlFile and of the functions it calls,
\* from the place f.pc to the next
Step(f, vaultFiles, vaultFolders) ==
    CASE f.pc = "saveAttachments" ->         \* lines 292-299
           IF f.attachments = <<>> THEN [f EXCEPT !.pc = "handle"]
           ELSE [f EXCEPT !.pc = "ensure", !.then = "baseName"]
      [] f.pc = "ensure" ->                  \* lines 162-171
           IF \/ f.attachmentFolder = ""
              \/ getAbstractFileByPath(vaultFiles, vaultFolders,
                                       normalizePath(f.attachmentFolder))
           THEN [f EXCEPT !.pc = f.then]
           ELSE [f EXCEPT !.pc = "folders", !.j = 1,
                   !.parts = PathSegments(normalizePath(f.attachmentFolder), 1)]
      [] f.pc = "folders" ->                 \* lines 173-176
           IF f.j > Len(f.parts) THEN [f EXCEPT !.pc = f.then]
           ELSE IF getAbstractFileByPath(vaultFiles, vaultFolders, CurrentPath(f))
           THEN [f EXCEPT !.j = @ + 1]
           ELSE [f EXCEPT !.pc = "mkdir", !.target = CurrentPath(f)]
      [] f.pc = "baseName" ->                \* line 301
           [f EXCEPT !.pc = "attachments", !.k = 1,
                     !.baseName = BaseName(vaultFiles[f.file].path)]
      [] f.pc = "attachments" ->             \* lines 303-324
           IF f.k > Len(f.attachments) THEN [f EXCEPT !.pc = "handle"]
           ELSE IF f.attachments[f.k].size > MAX_ATTACHMENT_SIZE
           THEN [f EXCEPT !.k = @ + 1]
           ELSE IF getAbstractFileByPath(vaultFiles, vaultFolders,
                                         AttachmentPath(f))
           THEN [f EXCEPT !.k = @ + 1]
           ELSE [f EXCEPT !.pc = "save", !.target = AttachmentPath(f)]
      [] f.pc = "handle" ->                  \* lines 227-231, 260
           IF settings.emlHandling = "move-to-attachments"
           THEN [f EXCEPT !.pc = "ensure", !.then = "unique"]
           ELSE [f EXCEPT !.pc = "markdown"]
      [] f.pc = "unique" ->                  \* lines 262-279
           [f EXCEPT !.pc = "rename",
                     !.target = UniquePath(vaultFiles, vaultFolders,
                                           f.attachmentFolder,
                                           vaultFiles[f.file].path)]
      [] f.pc = "markdown" ->                \* lines 233-237
           [f EXCEPT !.pc = "create", !.target = f.mdPath]
      [] f.pc = "handled" ->                 \* lines 239-242
           IF settings.emlHandling = "delete"
           THEN [f EXCEPT !.pc = "delete", !.created = TRUE]
           ELSE [f EXCEPT !.pc = "notice", !.created = TRUE]
      [] f.pc = "notice" ->                  \* line 245
           Returned(f, "converted")
      [] f.pc = "catch" ->                   \* lines 246-248
           Returned(f, "failed")

RECURSIVE Run(_, _, _)
\* convertEmlFile from the place f.pc to its next await or to its return
Run(f, vaultFiles, vaultFolders) ==
    IF f.pc \in Awaits \cup {"done"} THEN f
    ELSE Run(Step(f, vaultFiles, vaultFolders), vaultFiles, vaultFolders)

\* lines 249-252: this.processingFiles after the call went on to the frame
\* f, with the path the TFile object has when finally runs
Finally(f, vaultFiles, processing) ==
    IF f.pc = "done" THEN processing \ {vaultFiles[f.file].path}
    ELSE processing

\* the frames of the calls without the one at place c
Without(frames, c) ==
    [k \in 1..(Len(frames) - 1) |-> IF k < c THEN frames[k] ELSE frames[k + 1]]

\* whether a vault operation resolves: it fails for a reason outside the
\* vault at most MaxFailures times
Outcomes == IF failures < MaxFailures THEN BOOLEAN ELSE {TRUE}

\* the attachments of a parsed message as saveAttachments uses them: the
\* name, its safe form (line 305), the length and the content as the data
\* of a file
AttachmentsOf(result) ==
    [k \in 1..Len(result.attachments) |->
        [filename |-> result.attachments[k].filename,
         safeName |-> sanitizeFilename(result.attachments[k].filename),
         size     |-> Len(result.attachments[k].content),
         data     |-> DataOfBuffer(result.attachments[k].content)]]

\* what convertEmlFile takes from parseEml(content): whether it threw, the
\* attachments and the note
Opened(parsed) ==
    IF parsed.pc = "threw"
    THEN [threw |-> TRUE, attachments |-> <<>>, markdown |-> ""]
    ELSE [threw |-> FALSE, attachments |-> AttachmentsOf(parsed.result),
          markdown |-> generateMarkdown(parsed.result)]

\* the data of the files the vault can hold
VaultData == {PlainEmail, ForwardEmail, BrokenEmail, "Subject: In\n\nBody"}

\* Opened(parseEml(data)) for the data of VaultData, computed once
OpenedData == [data \in VaultData |-> Opened(parseEml(data))]

\* Opened(parseEml(data))
OpenedOf(data) ==
    IF data \in VaultData THEN OpenedData[data] ELSE Opened(parseEml(data))

\* lines 216-224: the frame after vault.read resolved with the content
Parsed(f, opened, path) ==
    IF opened.threw THEN [f EXCEPT !.pc = "catch"]
    ELSE [f EXCEPT !.pc = "saveAttachments",
                   !.attachments = opened.attachments,
                   !.attachmentFolder =
                       getAttachmentFolder(attachmentFolderPath, path),
                   !.markdown = opened.markdown]

\* a call of convertEmlFile enters and goes on to the frame f: it waits for
\* vault.read (lines 193-216) or has returned (lines 249-252)
Enters(f) ==
    /\ started < MaxCalls
    /\ started' = started + 1
    /\ calls' = IF f.pc = "done" THEN calls ELSE Append(calls, f)
    /\ returned' = IF f.pc = "done" THEN f ELSE returned
    /\ processingFiles' =
           IF f.pc = "done" THEN processingFiles
           ELSE processingFiles \cup {f.path}

\* a call of convertEmlFile(file) by the caller origin, up to its first
\* await
ConvertEmlFile(file, origin) ==
    Enters(Entered(Frame(file, origin, files[file].path)))

\* the call at place c goes on to the frame f: it waits again or has
\* returned through finally
Settles(c, f, ok) ==
    /\ calls' = IF f.pc = "done" THEN Without(calls, c)
                 ELSE [calls EXCEPT ![c] = f]
    /\ returned' = IF f.pc = "done" THEN f ELSE returned
    /\ processingFiles' = Finally(f, files', processingFiles)
    /\ failures' = IF ok THEN failures ELSE failures + 1
    /\ UNCHANGED <<settings, attachmentFolderPath, started, allCall>>
    /\ PluginFrame

\* the call at place c goes on from the frame f after its promise settled, to
\* its next await or to its return
Resumes(c, f, ok) == Settles(c, Run(f, files', folders'), ok)

\* the files the user put into the vault
UserFiles == {i \in 1..Len(files) : files[i].origin = "user"}

\* the user puts a file into the vault: the create event, lines 33-42
UserCreates ==
    \E drop \in UserDrops :
        /\ Cardinality(UserFiles) < MaxUserFiles
        /\ CanCreate(files, folders, drop.path)
        /\ files' = Created(files, drop.path, drop.data, "user")
        /\ timers' = Watched("create", Len(files'), "", files')
        /\ UNCHANGED <<settings, attachmentFolderPath, folders,
                       processingFiles, calls, returned, started, allCall,
                       failures>>
        /\ PluginFrame

\* the user renames a file: the rename event, lines 47-56
UserRenames ==
    \E i \in Live(files) :
        \E newPath \in UserRenameTargets(files[i].path) :
            /\ CanRename(files, folders, i, newPath)
            /\ files' = Renamed(files, i, newPath, FALSE)
            /\ timers' = Watched("rename", i, files[i].path, files')
            /\ UNCHANGED <<settings, attachmentFolderPath, folders,
                           processingFiles, calls, returned, started, allCall,
                           failures>>
            /\ PluginFrame

\* lines 41 and 55: the oldest callback of setTimeout runs
TimerFires ==
    /\ timers # <<>>
    /\ ConvertEmlFile(Head(timers).file, Head(timers).origin)
    /\ timers' = Tail(timers)
    /\ UNCHANGED <<settings, attachmentFolderPath, files, folders, allCall,
                   failures>>
    /\ PluginFrame

\* lines 60-73: the command on the active file
ManualCommand ==
    \E i \in Live(files) :
        /\ Extension(files[i].path) = "eml"
        /\ ConvertEmlFile(i, "command")
        /\ UNCHANGED <<settings, attachmentFolderPath, files, folders, timers,
                       allCall, failures>>
        /\ PluginFrame

\* line 79: vault.getFiles().filter(f => f.extension === 'eml')
EmlFilesOf(vaultFiles) ==
    Flatten([i \in 1..Len(vaultFiles) |->
               IF vaultFiles[i].live /\ Extension(vaultFiles[i].path) = "eml"
               THEN <<i>> ELSE <<>>])

\* lines 76-91: the convert-all command up to its first await
ConvertAllCommand ==
    /\ allCall = Idle
    /\ EmlFilesOf(files) # <<>>
    /\ ConvertEmlFile(Head(EmlFilesOf(files)), "all")
    /\ allCall' = [pc |-> "loop", emlFiles |-> Tail(EmlFilesOf(files))]
    /\ UNCHANGED <<settings, attachmentFolderPath, files, folders, timers,
                   failures>>
    /\ PluginFrame

\* lines 89-99: the call the command awaits has returned; the loop goes on
\* to the next file or ends
ConvertAllNext ==
    /\ allCall.pc = "loop"
    /\ \A c \in 1..Len(calls) : calls[c].origin # "all"
    /\ IF allCall.emlFiles = <<>>
       THEN /\ allCall' = Idle
            /\ UNCHANGED <<calls, returned, started, processingFiles>>
       ELSE /\ ConvertEmlFile(Head(allCall.emlFiles), "all")
            /\ allCall' = [allCall EXCEPT !.emlFiles = Tail(@)]
    /\ UNCHANGED <<settings, attachmentFolderPath, files, folders, timers,
                   failures>>
    /\ PluginFrame

\* line 216: vault.read settles; lines 219-224 follow
Read ==
    \E c \in 1..Len(calls), ok \in Outcomes :
        /\ calls[c].pc = "read"
        /\ UNCHANGED <<files, folders, timers>>
        /\ Resumes(c,
                   IF ok /\ files[calls[c].file].live
                   THEN Parsed(calls[c], OpenedOf(files[calls[c].file].data),
                               files[calls[c].file].path)
                   ELSE [calls[c] EXCEPT !.pc = "catch"],
                   ok)

\* lines 177-185: vault.createFolder settles
CreateFolder ==
    \E c \in 1..Len(calls), ok \in Outcomes :
        /\ calls[c].pc = "mkdir"
        /\ folders' =
               IF ok /\ CanCreate(files, folders, calls[c].target)
               THEN folders \cup {calls[c].target} ELSE folders
        /\ UNCHANGED <<files, timers>>
        /\ Resumes(c,
                   IF getAbstractFileByPath(files, folders', calls[c].target)
                   THEN [calls[c] EXCEPT !.pc = "folders", !.j = @ + 1]
                   ELSE [calls[c] EXCEPT !.pc = "catch"],
                   ok)

\* lines 326-339: vault.createBinary settles; an error is logged and the
\* loop goes on
SaveAttachment ==
    \E c \in 1..Len(calls), ok \in Outcomes :
        /\ calls[c].pc = "save"
        /\ files' =
               IF ok /\ CanCreate(files, folders, calls[c].target)
               THEN Created(files, calls[c].target,
                            calls[c].attachments[calls[c].k].data, "attachment")
               ELSE files
        /\ timers' = IF files' # files
                     THEN Watched("create", Len(files'), "", files')
                     ELSE timers
        /\ UNCHANGED folders
        /\ Resumes(c, [calls[c] EXCEPT !.pc = "attachments", !.k = @ + 1], ok)

\* line 279: fileManager.renameFile settles
MoveEml ==
    \E c \in 1..Len(calls), ok \in Outcomes :
        /\ calls[c].pc = "rename"
        /\ files' =
               IF ok /\ CanRename(files, folders, calls[c].file, calls[c].target)
               THEN Renamed(files, calls[c].file, calls[c].target, TRUE)
               ELSE files
        /\ timers' = IF files' # files
                     THEN Watched("rename", calls[c].file,
                                  files[calls[c].file].path, files')
                     ELSE timers
        /\ UNCHANGED folders
        /\ Resumes(c,
                   [calls[c] EXCEPT !.pc = IF files' # files THEN "markdown"
                                           ELSE "catch"],
                   ok)

\* line 237: vault.create settles
CreateNote ==
    \E c \in 1..Len(calls), ok \in Outcomes :
        /\ calls[c].pc = "create"
        /\ files' =
               IF ok /\ CanCreate(files, folders, calls[c].target)
               THEN Created(files, calls[c].target, calls[c].markdown, "note")
               ELSE files
        /\ timers' = IF files' # files
                     THEN Watched("create", Len(files'), "", files')
                     ELSE timers
        /\ UNCHANGED folders
        /\ Resumes(c,
                   [calls[c] EXCEPT !.pc = IF files' # files THEN "handled"
                                           ELSE "catch"],
                   ok)

\* line 241: vault.delete settles
DeleteEml ==
    \E c \in 1..Len(calls), ok \in Outcomes :
        /\ calls[c].pc = "delete"
        /\ files' =
               IF ok /\ files[calls[c].file].live
               THEN Deleted(files, calls[c].file) ELSE files
        /\ UNCHANGED <<folders, timers>>
        /\ Resumes(c,
                   [calls[c] EXCEPT !.pc = IF files' # files THEN "notice"
                                           ELSE "catch"],
                   ok)

PluginNext ==
    \/ UserCreates
    \/ UserRenames
    \/ TimerFires
    \/ ManualCommand
    \/ ConvertAllCommand
    \/ ConvertAllNext
    \/ Read
    \/ CreateFolder
    \/ SaveAttachment
    \/ MoveEml
    \/ CreateNote
    \/ DeleteEml

\* the plugin in a vault the user puts at most MaxUserFiles files into
SpecPlugin == PluginInit /\ [][PluginNext]_vars

-----------------------------------------------------------------------------
(* Properties of the plugin                                                *)

\* C13: the path convertEmlFile adds to processingFiles is removed by the
\* time the call returns, on every way out of it; so processingFiles is
\* empty whenever no call of convertEmlFile is under way.
C13_ProcessingFilesEmptiedAtRest ==
    calls = <<>> => processingFiles = {}

\* C14: no two calls of convertEmlFile that are under way passed the check of
\* processingFiles with the same path.
C14_OneConversionPerPath ==
    \A c \in 1..Len(calls), d \in 1..Len(calls) :
        c # d => calls[c].path # calls[d].path

\* the plugin put the file where it is: saveAttachments wrote it, or
\* moveEmlToAttachments moved it
PlacedByPlugin(file) == file.origin = "attachment" \/ file.moved

\* the callers of convertEmlFile that are the watchers of lines 33-56
Watchers == {"create", "rename"}

\* C15: no call of convertEmlFile made by the create or the rename watcher
\* goes on to read a file the plugin put into the attachment folder,
\* whatever the setting of the attachment folder is.
C15_PlacedFilesNotConvertedByWatchers ==
    \A c \in 1..Len(calls) :
        (calls[c].pc = "read" /\ calls[c].origin \in Watchers)
            => ~PlacedByPlugin(files[calls[c].file])

\* a call of convertEmlFile is made in the step
Entering == started' = started + 1

\* the frame of the call made in the step
EnteredFrame ==
    IF Len(calls') > Len(calls) THEN calls'[Len(calls')] ELSE returned'

\* the files of the extension md that are in the vault
Notes == {i \in Live(files) : Extension(files[i].path) = "md"}

\* C16: a call of convertEmlFile for a file whose note exists returns at
\* once and leaves the files and folders of the vault as they are; and no
\* step changes a note that exists or puts another file at its path.
C16_ExistingNoteKept ==
    [][/\ (/\ Entering
           /\ getAbstractFileByPath(files, folders,
                                    MdPath(files[EnteredFrame.file].path)))
          => /\ EnteredFrame.pc = "done"
             /\ files' = files
             /\ folders' = folders
       /\ \A i \in Notes :
            /\ files'[i] = files[i]
            /\ \A j \in Live(files') \ {i} : files'[j].path # files[i].path
      ]_vars

\* a command found the note of a converted message in place and returned;
\* the note is the one the conversion wrote
C16_Witness ==
    /\ returned.pc = "done"
    /\ returned.outcome = "exists"
    /\ returned.origin = "command"
    /\ \E i \in Notes :
          /\ files[i].path = returned.mdPath
          /\ files[i].data = "# Hi"
    /\ files[returned.file].live
    /\ files[returned.file].path = returned.path

\* C17: a call of convertEmlFile that returns without having created the
\* note leaves the .eml file in the vault at the path it had when the call
\* was made, whatever emlHandling is.
C17_EmlKeptUnlessNoteCreated ==
    [][(Len(calls') < Len(calls) /\ ~returned'.created)
          => /\ files'[returned'.file].live
             /\ files'[returned'.file].path = returned'.path
      ]_vars

====
